---- MODULE Spec2Model ----
(***************************************************************************)
(* Model of the calculation engine of the Intact_Stability application:    *)
(* weight aggregation (helpers.py), crane lift and SWL (crane.py) and the  *)
(* stability criteria battery (criteria.py).                               *)
(*                                                                         *)
(* The routines are pure functions.  Each is an operator, computed the way *)
(* the Python computes it, and each has one action that draws the call's   *)
(* arguments from bounded sets and records the call and what it returned   *)
(* or raised.  Python floats are modelled as exact rationals <<n, d>> in   *)
(* lowest terms with d > 0, so binary rounding error is not represented.   *)
(***************************************************************************)
EXTENDS Integers, Sequences, FiniteSets, TLC

VARIABLES
    op,     \* name of the routine last called ("init" before any call)
    args,   \* the arguments of that call
    ret,    \* its outcome: [kind |-> "return", ...] or [kind |-> "raise", exc |-> ...]
    saved_entries,  \* the rows of saved_data_cargo_and_tank, by worksheet name
    requests        \* the crane requests in flight: body, position and response

vars == <<op, args, ret, saved_entries, requests>>

(***************************************************************************)
(* Exact rational arithmetic standing for Python float arithmetic.         *)
(***************************************************************************)
Abs(n) == IF n < 0 THEN -n ELSE n

RECURSIVE GCD(_, _)
GCD(a, b) == IF b = 0 THEN a ELSE GCD(b, a % b)

\* n/d after division by g = gcd(|n|, |d|), the denominator made positive
Reduced(n, d, g) == IF d < 0 THEN <<(-n) \div g, (-d) \div g>> ELSE <<n \div g, d \div g>>

\* the rational n/d (d # 0) in lowest terms with a positive denominator
Rat(n, d) == Reduced(n, d, GCD(Abs(n), Abs(d)))

R(n) == <<n, 1>>
\* the sum over the least common denominator, g the gcd of the denominators
SumOver(a, b, g) == Rat(a[1] * (b[2] \div g) + b[1] * (a[2] \div g), (a[2] \div g) * b[2])
RAdd(a, b) == SumOver(a, b, GCD(a[2], b[2]))
RNeg(a) == <<-a[1], a[2]>>
RSub(a, b) == SumOver(a, <<-b[1], b[2]>>, GCD(a[2], b[2]))
\* the product, the common factors g1 of a's numerator and b's denominator
\* and g2 of b's numerator and a's denominator divided out beforehand
CrossReduced(a, b, g1, g2) ==
    <<(a[1] \div g1) * (b[1] \div g2), (a[2] \div g2) * (b[2] \div g1)>>
RMul(a, b) == CrossReduced(a, b, GCD(Abs(a[1]), b[2]), GCD(Abs(b[1]), a[2]))
RInv(a) == IF a[1] < 0 THEN <<-a[2], -a[1]>> ELSE <<a[2], a[1]>>
\* defined for b # 0 only; every caller models Python's ZeroDivisionError itself
RDiv(a, b) == RMul(a, RInv(b))
RLt(a, b) == a[1] * b[2] < b[1] * a[2]
RLe(a, b) == a[1] * b[2] <= b[1] * a[2]
RGt(a, b) == b[1] * a[2] < a[1] * b[2]
RGe(a, b) == b[1] * a[2] <= a[1] * b[2]
RIsZero(a) == a[1] = 0

RECURSIVE RSum(_)
RSum(s) == IF s = <<>> THEN R(0) ELSE RAdd(s[1], RSum(Tail(s)))

Pow10(k) == IF k = 4 THEN 10000 ELSE IF k = 2 THEN 100 ELSE 1

\* the integer nearest to q, ties to even
RoundHalfEven(q) ==
    IF 2 * (q[1] % q[2]) > q[2] \/ (2 * (q[1] % q[2]) = q[2] /\ (q[1] \div q[2]) % 2 = 1)
    THEN (q[1] \div q[2]) + 1
    ELSE q[1] \div q[2]

\* Python round(q, k): to k decimals, ties to even
Round(q, k) == Rat(RoundHalfEven(RMul(q, R(Pow10(k)))), Pow10(k))

Return(v) == [kind |-> "return", value |-> v]
Raise(e) == [kind |-> "raise", exc |-> e]

\* the sequences over S of length at most n
SeqsUpTo(S, n) == UNION {[1..k -> S] : k \in 0..n}

(***************************************************************************)
(* helpers.get_fixed_weight                                                *)
(***************************************************************************)
MaxItems == 2

FixedWeightItems ==
    [weight : {-1, 0, 1, 2}, lcg : {1, 3}, tcg : {-1, 0}, vcg : {2}]

\* the loop of lines 217-224: running sums of weight and of the three moments
RECURSIVE FixedWeightSums(_)
FixedWeightSums(weight_data) ==
    IF weight_data = <<>> THEN [weight |-> 0, lcg |-> 0, tcg |-> 0, vcg |-> 0]
    ELSE LET fw   == weight_data[Len(weight_data)]
             prev == FixedWeightSums(SubSeq(weight_data, 1, Len(weight_data) - 1))
         IN  [weight |-> prev.weight + fw.weight,
              lcg    |-> prev.lcg + fw.weight * fw.lcg,
              tcg    |-> prev.tcg + fw.weight * fw.tcg,
              vcg    |-> prev.vcg + fw.weight * fw.vcg]

get_fixed_weight(weight_data) ==
    LET s == FixedWeightSums(weight_data)
    IN  IF s.weight # 0
        THEN Return([weight |-> Round(R(s.weight), 4),
                     lcg |-> Rat(s.lcg, s.weight),
                     tcg |-> Rat(s.tcg, s.weight),
                     vcg |-> Rat(s.vcg, s.weight)])
        ELSE Return([weight |-> Round(R(s.weight), 4),
                     lcg |-> R(s.lcg), tcg |-> R(s.tcg), vcg |-> R(s.vcg)])

(***************************************************************************)
(* helpers.get_tank_weight                                                 *)
(***************************************************************************)
tank_properties == <<"volume", "weight", "lcg", "tcg", "vcg", "fsm">>

\* scipy interp1d(x, y) with its defaults (kind = "linear", bounds_error =
\* True): searchsorted finds the first node >= x_new, clipped so that a
\* segment lies below it; a query outside [x[1], x[Len(x)]] raises ValueError
Interp1d(x, y, x_new) ==
    IF RLt(x_new, R(x[1])) \/ RGt(x_new, R(x[Len(x)])) THEN Raise("ValueError")
    ELSE LET first == CHOOSE i \in 1..Len(x) :
                          /\ RGe(R(x[i]), x_new)
                          /\ \A j \in 1..(i - 1) : RLt(R(x[j]), x_new)
             hi    == IF first < 2 THEN 2 ELSE first
             lo    == hi - 1
             slope == Rat(y[hi] - y[lo], x[hi] - x[lo])
         IN  Return(RAdd(RMul(slope, RSub(x_new, R(x[lo]))), R(y[lo])))

\* tank_data.get(tank_name, 0)
TankFill(tank_data, tank_name) ==
    IF tank_name \in DOMAIN tank_data THEN tank_data[tank_name] ELSE 0

\* lines 29-43: one tank's interpolated properties, or the ValueError of interp1d
TankDict(entry, tank_data) ==
    LET fill == TankFill(tank_data, entry.name)
        ip   == [prop \in {tank_properties[k] : k \in 1..Len(tank_properties)} |->
                    Interp1d(entry.curve.fill, entry.curve[prop], R(fill))]
    IN  IF \E prop \in DOMAIN ip : ip[prop].kind = "raise" THEN Raise("ValueError")
        ELSE Return([volume |-> ip["volume"].value, weight |-> ip["weight"].value,
                     lcg |-> ip["lcg"].value, tcg |-> ip["tcg"].value,
                     vcg |-> ip["vcg"].value, fsm |-> ip["fsm"].value,
                     tank_name |-> entry.name, fill_percent |-> fill])

\* lines 27-45: the entries whose key ends with ".csv", in the dict's order
RECURSIVE TankVals(_, _)
TankVals(tanks, tank_data) ==
    IF tanks = <<>> THEN <<>>
    ELSE LET rest == TankVals(Tail(tanks), tank_data)
         IN  IF tanks[1].csv THEN <<TankDict(tanks[1], tank_data)>> \o rest ELSE rest

ZeroTotal == <<R(0), R(0), R(0), R(0), R(0)>>

\* sum(tank[prop] for tank in tank_vals), and the same weighted by tank["weight"]
RECURSIVE SumOf(_, _)
SumOf(tank_vals, prop) ==
    IF tank_vals = <<>> THEN R(0)
    ELSE RAdd(tank_vals[1][prop], SumOf(Tail(tank_vals), prop))

RECURSIVE MomentOf(_, _)
MomentOf(tank_vals, prop) ==
    IF tank_vals = <<>> THEN R(0)
    ELSE RAdd(RMul(tank_vals[1][prop], tank_vals[1].weight), MomentOf(Tail(tank_vals), prop))

\* lines 47-60, tank_vals and their total weight given
TankTotals(tank_vals, weight) ==
    IF RIsZero(weight)
    THEN Return([tank_vals |-> tank_vals, total |-> ZeroTotal])
    ELSE Return([tank_vals |-> tank_vals,
                 total |-> <<weight,
                             RDiv(MomentOf(tank_vals, "lcg"), weight),
                             RDiv(MomentOf(tank_vals, "tcg"), weight),
                             RDiv(MomentOf(tank_vals, "vcg"), weight),
                             SumOf(tank_vals, "fsm")>>])

\* the values of the per-tank outcomes, none of which raised
Values(dicts) == [k \in 1..Len(dicts) |-> dicts[k].value]

TankAggregate(tank_vals) == TankTotals(tank_vals, SumOf(tank_vals, "weight"))

\* lines 27-45 end at the first tank whose interpolation raises
TankOutcome(dicts) ==
    IF \E k \in 1..Len(dicts) : dicts[k].kind = "raise" THEN Raise("ValueError")
    ELSE TankAggregate(Values(dicts))

get_tank_weight(tanks, tank_data) == TankOutcome(TankVals(tanks, tank_data))

\* tank curves on the fill grid 0 % .. 100 %
TankCurves ==
    { [fill |-> <<0, 100>>, volume |-> <<0, 10>>, weight |-> <<0, 10>>,
       lcg |-> <<4, 4>>, tcg |-> <<1, 1>>, vcg |-> <<2, 3>>, fsm |-> <<0, 5>>],
      [fill |-> <<0, 100>>, volume |-> <<0, 6>>, weight |-> <<0, 6>>,
       lcg |-> <<-2, -2>>, tcg |-> <<0, 0>>, vcg |-> <<1, 2>>, fsm |-> <<3, 0>>],
      [fill |-> <<0, 100>>, volume |-> <<0, 10>>, weight |-> <<-5, 5>>,
       lcg |-> <<1, 3>>, tcg |-> <<-1, -1>>, vcg |-> <<1, 1>>, fsm |-> <<2, 2>>] }

TankFills == {0, 50, 100, 120}

\* ship["Tanks"]: two tank tables and one key that is no ".csv" table
ShipTanks ==
    { << [name |-> "T1", csv |-> TRUE, curve |-> c1],
         [name |-> "units", csv |-> FALSE, curve |-> c1],
         [name |-> "T2", csv |-> TRUE, curve |-> c2] >> :
      c1 \in TankCurves, c2 \in TankCurves }

TankData ==
    UNION { [names -> TankFills] : names \in SUBSET {"T1", "T2"} }

(***************************************************************************)
(* crane.calculate_required_swl                                            *)
(*                                                                         *)
(* A load curve is NoTable (Python None) or <<rows>>, rows the sequence of  *)
(* <<Radius, SWL>> rows of the DataFrame in file order.                    *)
(***************************************************************************)
NoTable == <<>>
Table(rows) == <<rows>>

radius_list(table) == [k \in 1..Len(table) |-> R(table[k][1])]
swl_list(table) == [k \in 1..Len(table) |-> R(table[k][2])]

\* list.index(v): the first position holding v
IndexOf(list, v) == CHOOSE i \in 1..Len(list) : list[i] = v /\ \A j \in 1..(i - 1) : list[j] # v
InList(list, v) == \E i \in 1..Len(list) : list[i] = v
MaxOf(S) == CHOOSE m \in S : \A e \in S : RLe(e, m)
MinOf(S) == CHOOSE m \in S : \A e \in S : RLe(m, e)
MaxInt(S) == CHOOSE m \in S : \A e \in S : e <= m
MinInt(S) == CHOOSE m \in S : \A e \in S : m <= e
Elems(list) == {list[k] : k \in 1..Len(list)}

\* lines 187-189
StaticHookLoadBe(Mnet, Mrigging, Mhook) == RAdd(RAdd(Mnet, Mrigging), Mhook)
StaticHookLoadUb(Mgross, WCF, Mrigging, WCFrigging, Mhook) ==
    RAdd(RAdd(RMul(Mgross, WCF), RMul(Mrigging, WCFrigging)), Mhook)

\* lines 192-195: the guard compares DAF with DAFincl, it does not test DAFincl
RequiredSwl(SHLub, Mblock, DAF, DAFincl) ==
    IF RGt(DAF, DAFincl)
    THEN IF RIsZero(DAFincl) THEN Raise("ZeroDivisionError")
         ELSE Return(RSub(RDiv(RMul(RAdd(SHLub, Mblock), DAF), DAFincl), Mblock))
    ELSE Return(SHLub)

\* SwlInterpolate with the interpolation left out: the lower row's SWL
SwlInterpolate_LowerRow(radii, swls, Ra) ==
    Return(swls[MaxInt({i \in 1..Len(radii) : RLe(radii[i], Ra)})])

\* lines 218-231: interpolation between the rows that bracket Ra by position
SwlInterpolate(radii, swls, Ra) ==
    LET lower_indices == {i \in 1..Len(radii) : RLe(radii[i], Ra)}
        upper_indices == {i \in 1..Len(radii) : RGe(radii[i], Ra)}
    IN  IF lower_indices # {} /\ upper_indices # {}
        THEN LET lower_idx == MaxInt(lower_indices)
                 upper_idx == MinInt(upper_indices)
                 Rup       == radii[lower_idx]
                 Swlup     == swls[lower_idx]
                 Rdown     == radii[upper_idx]
                 SWldown   == swls[upper_idx]
             IN  IF lower_idx # upper_idx
                 THEN IF Rdown = Rup THEN Raise("ZeroDivisionError")
                      ELSE Return(RAdd(Swlup, RDiv(RMul(RSub(Ra, Rup), RSub(SWldown, Swlup)),
                                                   RSub(Rdown, Rup))))
                 ELSE Return(R(0))
        ELSE Return(R(0))

\* SwlLookup with the two edge clamps exchanged
SwlLookup_ClampsSwapped(table, Ra) ==
    IF RIsZero(Ra) THEN Return(R(0))
    ELSE IF table = NoTable THEN Raise("UnboundLocalError")
    ELSE IF table[1] = <<>> THEN Return(R(0))
    ELSE IF InList(radius_list(table[1]), Ra)
         THEN Return(swl_list(table[1])[IndexOf(radius_list(table[1]), Ra)])
    ELSE IF RGt(Ra, MaxOf(Elems(radius_list(table[1])))) THEN Return(swl_list(table[1])[1])
    ELSE IF RLt(Ra, MinOf(Elems(radius_list(table[1]))))
         THEN Return(swl_list(table[1])[Len(table[1])])
    ELSE SwlInterpolate(radius_list(table[1]), swl_list(table[1]), Ra)

\* lines 199-231: SWL at the required outreach
SwlLookup(table, Ra) ==
    IF RIsZero(Ra) THEN Return(R(0))
    ELSE IF table = NoTable THEN Raise("UnboundLocalError")
    ELSE IF table[1] = <<>> THEN Return(R(0))
    ELSE LET radii == radius_list(table[1])
             swls  == swl_list(table[1])
         IN  IF InList(radii, Ra) THEN Return(swls[IndexOf(radii, Ra)])
             ELSE IF RGt(Ra, MaxOf(Elems(radii))) THEN Return(swls[Len(swls)])
             ELSE IF RLt(Ra, MinOf(Elems(radii))) THEN Return(swls[1])
             ELSE SwlInterpolate(radii, swls, Ra)

\* RadiusInterpolate with the radii of the two bracketing rows exchanged
RadiusInterpolate_RowsExchanged(radii, swls, SWLreq) ==
    LET below == {v \in Elems(swls) : RLe(v, SWLreq)}
        above == {v \in Elems(swls) : RGe(v, SWLreq)}
    IN  IF below # {} /\ above # {} /\ MaxOf(below) # MinOf(above)
        THEN LET X1 == MinOf(above)
                 X2 == MaxOf(below)
                 Y1 == radii[IndexOf(swls, X2)]
                 Y2 == radii[IndexOf(swls, X1)]
             IN  Return(RAdd(Y1, RMul(RSub(SWLreq, X1), RDiv(RSub(Y2, Y1), RSub(X2, X1)))))
        ELSE Return(R(0))

\* lines 248-258: radius at SWLreq, the two columns swapped
RadiusInterpolate(radii, swls, SWLreq) ==
    LET below == {v \in Elems(swls) : RLe(v, SWLreq)}
        above == {v \in Elems(swls) : RGe(v, SWLreq)}
    IN  IF below # {} /\ above # {} /\ MaxOf(below) # MinOf(above)
        THEN LET X1 == MinOf(above)
                 X2 == MaxOf(below)
                 Y1 == radii[IndexOf(swls, X1)]
                 Y2 == radii[IndexOf(swls, X2)]
             IN  Return(RAdd(Y1, RMul(RSub(SWLreq, X1), RDiv(RSub(Y2, Y1), RSub(X2, X1)))))
        ELSE Return(R(0))   \* Rm keeps its initial 0.00 of line 181

\* lines 233-258: outreach Rm at which SWLreq is met
RadiusLookup(table, SWLreq) ==
    IF RIsZero(SWLreq) THEN Return(R(0))
    ELSE IF table = NoTable THEN Raise("UnboundLocalError")
    ELSE IF table[1] = <<>> THEN Raise("ValueError")
    ELSE LET radii == radius_list(table[1])
             swls  == swl_list(table[1])
         IN  IF InList(swls, SWLreq) THEN Return(radii[IndexOf(swls, SWLreq)])
             ELSE IF RLt(SWLreq, MinOf(Elems(swls))) THEN Return(radii[Len(radii)])
             ELSE IF RGt(SWLreq, MaxOf(Elems(swls))) THEN Return(radii[1])
             ELSE RadiusInterpolate(radii, swls, SWLreq)

\* lines 262-265
CorrectedSwl(SWL, Mblock, DAF, DAFincl) ==
    IF RGt(DAF, DAFincl)
    THEN IF RIsZero(DAF) THEN Raise("ZeroDivisionError")
         ELSE Return(RSub(RDiv(RMul(RAdd(SWL, Mblock), DAFincl), DAF), Mblock))
    ELSE Return(SWL)

\* lines 268 and 271
Utilization(num, den) == IF ~RIsZero(den) THEN RDiv(num, den) ELSE R(0)

calculate_required_swl(table, Ra, crane_weight, Mrigging, Mhook, WCFrigging, WCF, DAF, DAFincl, Mblock) ==
    LET SHLbe  == StaticHookLoadBe(crane_weight, Mrigging, Mhook)
        SHLub  == StaticHookLoadUb(crane_weight, WCF, Mrigging, WCFrigging, Mhook)
        SWLreq == RequiredSwl(SHLub, Mblock, DAF, DAFincl)
        SWL    == SwlLookup(table, Ra)
        Rm     == RadiusLookup(table, SWLreq.value)
        SWLcorr == CorrectedSwl(SWL.value, Mblock, DAF, DAFincl)
    IN  IF SWLreq.kind = "raise" THEN SWLreq
        ELSE IF SWL.kind = "raise" THEN SWL
        ELSE IF Rm.kind = "raise" THEN Rm
        ELSE IF SWLcorr.kind = "raise" THEN SWLcorr
        ELSE Return([SHLbe |-> SHLbe, SHLub |-> SHLub, SWLreq |-> SWLreq.value,
                     SWL |-> SWL.value, SWLcorr |-> SWLcorr.value,
                     UCl |-> Utilization(SHLub, SWLcorr.value),
                     Rm |-> Rm.value,
                     UCr |-> Utilization(Ra, Rm.value)])

(***************************************************************************)
(* crane.calculate_boom_angle and crane.calculate_slew_angle               *)
(*                                                                         *)
(* An angle is kept as the argument of the inverse cosine that produced    *)
(* it: [acos_deg |-> r] stands for math.degrees(math.acos(r)).             *)
(***************************************************************************)
BeyondBoth == "Lift is beyond crane capacity and max radius!"
BeyondCapacity == "Lift is beyond crane capacity!"
BeyondRadius == "Lift is beyond max radius!"
InsideMinimum == "Cargo inside minimum outreach!"

\* degrees(acos(r)) > 75 for a rational r in [-1, 1], i.e. r < cos 75 deg =
\* (sqrt 6 - sqrt 2) / 4, decided exactly: r < 0, or r < 1/2 and
\* 8 r^2 < (1 - 4 r^2)^2
AcosDegAbove75(r) ==
    \/ r[1] < 0
    \/ /\ 2 * r[1] < r[2]
       /\ 8 * r[1] * r[1] * r[2] * r[2]
            < (r[2] * r[2] - 4 * r[1] * r[1]) * (r[2] * r[2] - 4 * r[1] * r[1])

\* the two variants of the result: a message or a number
Text(t) == [variant |-> "text", text |-> t]
Angle(r) == [variant |-> "angle", acos_deg |-> r]

\* calculate_boom_angle with the thresholds compared by >= instead of >
calculate_boom_angle_AtOne(boom_length, required_outreach, Ucl, Ucr) ==
    IF RGe(Ucr, R(1)) /\ RGe(Ucl, R(1)) THEN Return(Text(BeyondBoth))
    ELSE IF RGe(Ucl, R(1)) THEN Return(Text(BeyondCapacity))
    ELSE IF RGe(Ucr, R(1)) THEN Return(Text(BeyondRadius))
    ELSE IF RIsZero(boom_length) THEN Raise("ZeroDivisionError")
    ELSE IF RGt(RDiv(required_outreach, boom_length), R(1))
            \/ RLt(RDiv(required_outreach, boom_length), R(-1)) THEN Raise("ValueError")
    ELSE IF AcosDegAbove75(RDiv(required_outreach, boom_length)) THEN Return(Text(InsideMinimum))
    ELSE Return(Angle(RDiv(required_outreach, boom_length)))

calculate_boom_angle(boom_length, required_outreach, Ucl, Ucr) ==
    IF RGt(Ucr, R(1)) /\ RGt(Ucl, R(1)) THEN Return(Text(BeyondBoth))
    ELSE IF RGt(Ucl, R(1)) THEN Return(Text(BeyondCapacity))
    ELSE IF RGt(Ucr, R(1)) THEN Return(Text(BeyondRadius))
    ELSE IF RIsZero(boom_length) THEN Raise("ZeroDivisionError")
    ELSE LET ratio == RDiv(required_outreach, boom_length)
         IN  IF RGt(ratio, R(1)) \/ RLt(ratio, R(-1)) THEN Raise("ValueError")
             ELSE IF AcosDegAbove75(ratio) THEN Return(Text(InsideMinimum))
             ELSE Return(Angle(ratio))

\* math.sqrt on the perfect squares the modelled geometry produces
Sqrt(n) == CHOOSE k \in 0..n : k * k = n

\* lines 84-113: [acos_deg |-> cos_angle] as the pair (dot, |A|^2 |B|^2), and
\* whether the cross product turns it into 360 - angle
calculate_slew_angle(x1, y1, x2, y2, x3, y3) ==
    LET vector_A_x == x2 - x1
        vector_A_y == y2 - y1
        vector_B_x == x3 - x1
        vector_B_y == y3 - y1
        dot_product == vector_A_x * vector_B_x + vector_A_y * vector_B_y
        magnitude_A2 == vector_A_x * vector_A_x + vector_A_y * vector_A_y
        magnitude_B2 == vector_B_x * vector_B_x + vector_B_y * vector_B_y
        cross_product == vector_A_x * vector_B_y - vector_A_y * vector_B_x
    IN  IF magnitude_A2 * magnitude_B2 = 0 THEN Raise("ZeroDivisionError")
        ELSE Return([dot |-> dot_product, mag2 |-> magnitude_A2 * magnitude_B2,
                     reflex |-> cross_product < 0])

(***************************************************************************)
(* crane.get_swl_table                                                     *)
(*                                                                         *)
(* A dict is a sequence of <<key, value>> pairs in insertion order.  A     *)
(* file key is [stem, ext]: key.endswith(".csv") is ext = "csv" and        *)
(* f"{height}.csv" is [stem |-> height, ext |-> "csv"].                    *)
(***************************************************************************)
Keys(dict) == {dict[k][1] : k \in 1..Len(dict)}
Lookup(dict, key) == dict[CHOOSE k \in 1..Len(dict) : dict[k][1] = key][2]

\* Python None as the value of a selector
None == "<None>"

\* boomdata.get(key)
Get(boomdata, key) == IF key \in DOMAIN boomdata THEN boomdata[key] ELSE None

\* not v, for the values a selector takes
Falsy(v) == v \in {None, ""}

\* line 296-298: first ".csv" entry of one operation's files
RECURSIVE FirstCsvInFiles(_)
FirstCsvInFiles(files) ==
    IF files = <<>> THEN NoTable
    ELSE IF files[1][1].ext = "csv" THEN Table(files[1][2])
    ELSE FirstCsvInFiles(Tail(files))

\* line 295
RECURSIVE FirstCsvInOperations(_)
FirstCsvInOperations(operations) ==
    IF operations = <<>> THEN NoTable
    ELSE LET found == FirstCsvInFiles(operations[1][2])
         IN  IF found # NoTable THEN found ELSE FirstCsvInOperations(Tail(operations))

\* line 294
RECURSIVE FirstCsvInBooms(_)
FirstCsvInBooms(crane_tables) ==
    IF crane_tables = <<>> THEN NoTable
    ELSE LET found == FirstCsvInOperations(crane_tables[1][2])
         IN  IF found # NoTable THEN found ELSE FirstCsvInBooms(Tail(crane_tables))

\* lines 302-311: the lookup by (boom, operation, height); None when absent
SpecificSwlTable(crane_tables, boom, operation, required_height) ==
    IF boom \in Keys(crane_tables)
    THEN LET boom_section == Lookup(crane_tables, boom)
         IN  IF operation \in Keys(boom_section)
             THEN LET operation_section == Lookup(boom_section, operation)
                      csv_key == [stem |-> required_height, ext |-> "csv"]
                  IN  IF csv_key \in Keys(operation_section)
                      THEN Table(Lookup(operation_section, csv_key))
                      ELSE NoTable
             ELSE NoTable
    ELSE NoTable

get_swl_table(crane_tables, boomdata) ==
    LET boom == Get(boomdata, "boom")
        operation == Get(boomdata, "operation")
        required_height == Get(boomdata, "height")
    IN  IF Falsy(boom) \/ Falsy(operation) \/ Falsy(required_height)
        THEN FirstCsvInBooms(crane_tables)
        ELSE SpecificSwlTable(crane_tables, boom, operation, required_height)

(***************************************************************************)
(* crane.calculate_crane_and_swl                                           *)
(***************************************************************************)
\* boomdata["boom"].replace(" Boom", "") on the boom names of the model
StripBoom(boom) ==
    CASE boom = "Main Boom" -> "Main"
      [] boom = "Fly Boom" -> "Fly"
      [] OTHER -> boom

\* lines 35-39: the boom tip of the selected boom type, else the unkeyed
\* point; unpacking a dict of tips into [x2, y2, z2] fails
BoomTipPoint(boom_tip_point, boom_type) ==
    IF boom_tip_point.keyed
    THEN IF boom_type \in Keys(boom_tip_point.tips)
         THEN Return(Lookup(boom_tip_point.tips, boom_type))
         ELSE IF Len(boom_tip_point.tips) = 3 THEN Raise("TypeError")
         ELSE Raise("ValueError")
    ELSE Return(boom_tip_point.tip)

\* lines 54-61: the orientation entry; to_dict() of a missing table fails
CraneOrientation(cargo_details, required_swl_table, required_outreach, required_swl, boom_angle, slewangle) ==
    IF boom_angle.kind = "raise" THEN boom_angle
    ELSE IF slewangle.kind = "raise" THEN slewangle
    ELSE IF required_swl_table = NoTable THEN Raise("AttributeError")
    ELSE Return([orientation |->
                     [slew_angle |-> slewangle.value,
                      boom_angle |-> boom_angle.value,
                      required_outreach |-> R(required_outreach),
                      weight |-> cargo_details[1],
                      required_swl_table |-> required_swl_table[1]],
                 required_swl |-> required_swl.value])

\* lines 47-50
CraneAngles(base, tip, cargo_details, required_swl_table, required_outreach, required_swl) ==
    IF required_swl.kind = "raise" THEN required_swl
    ELSE CraneOrientation(cargo_details, required_swl_table, required_outreach, required_swl,
                          calculate_boom_angle(R(tip[1] - base[1]), R(required_outreach),
                                               required_swl.value.UCl, required_swl.value.UCr),
                          calculate_slew_angle(base[1], base[2], tip[1], tip[2],
                                               cargo_details[2], cargo_details[3]))

\* line 46
CraneSwl(base, tip, cargo_details, f, required_swl_table, required_outreach) ==
    CraneAngles(base, tip, cargo_details, required_swl_table, required_outreach,
                calculate_required_swl(required_swl_table, R(required_outreach),
                                       R(cargo_details[1]), R(f.Mrigging), R(f.Mhook),
                                       R(f.WCFrigging), R(f.WCF), R(f.DAF), R(f.DAFincl),
                                       R(f.Mblock)))

\* lines 41-45
CraneLift(crane_tables, base, tip, cargo_details, f, boomdata) ==
    IF tip.kind = "raise" THEN tip
    ELSE CraneSwl(base, tip.value, cargo_details, f, get_swl_table(crane_tables, boomdata),
                  Sqrt((cargo_details[2] - base[1]) * (cargo_details[2] - base[1])
                       + (cargo_details[3] - base[2]) * (cargo_details[3] - base[2])))

\* lines 31-61: one crane that has cargo
CraneWithCargo(crane_tables, crane_details, cargo_details, f, boomdata) ==
    IF "boom" \notin DOMAIN boomdata THEN Raise("KeyError")
    ELSE IF boomdata["boom"] = None THEN Raise("AttributeError")
    ELSE CraneLift(crane_tables, crane_details.pedestal_base_point,
                   BoomTipPoint(crane_details.boom_tip_point, StripBoom(boomdata["boom"])),
                   cargo_details, f, boomdata)

\* lines 25-63: the loop over the cranes; acc carries crane_orientations and
\* the local required_swl (<<>> while it is unbound)
RECURSIVE CraneLoop(_, _, _, _, _, _)
RECURSIVE CraneNext(_, _, _, _, _, _, _)
CraneNext(crane_data, crane_tables, cargo_data, f, boomdata, acc, one) ==
    IF one.kind = "raise" THEN one
    ELSE CraneLoop(Tail(crane_data), crane_tables, cargo_data, f, boomdata,
                   [crane_orientations |->
                        Append(acc.crane_orientations,
                               <<crane_data[1][1], <<one.value.orientation>> >>),
                    required_swl |-> <<one.value.required_swl>>])

CraneLoop(crane_data, crane_tables, cargo_data, f, boomdata, acc) ==
    IF crane_data = <<>> THEN Return(acc)
    ELSE IF crane_data[1][1] \in Keys(cargo_data)
    THEN CraneNext(crane_data, crane_tables, cargo_data, f, boomdata, acc,
                   CraneWithCargo(crane_tables, crane_data[1][2],
                                  Lookup(cargo_data, crane_data[1][1]), f, boomdata))
    ELSE CraneLoop(Tail(crane_data), crane_tables, cargo_data, f, boomdata,
                   [crane_orientations |->
                        Append(acc.crane_orientations, <<crane_data[1][1], <<>> >>),
                    required_swl |-> acc.required_swl])

\* line 67 reads the local required_swl, unbound when no crane had cargo
CraneResult(done) ==
    IF done.kind = "raise" THEN done
    ELSE IF done.value.required_swl = <<>> THEN Raise("UnboundLocalError")
    ELSE Return([crane_orientations |-> done.value.crane_orientations,
                 calculated_output_values |-> done.value.required_swl[1]])

calculate_crane_and_swl(crane_tables, crane_data, cargo_data, f, boomdata) ==
    CraneResult(CraneLoop(crane_data, crane_tables, cargo_data, f, boomdata,
                          [crane_orientations |-> <<>>, required_swl |-> <<>>]))

(***************************************************************************)
(* criteria.py                                                             *)
(*                                                                         *)
(* math.pi is the rational 355/113.  A float nan is <<0, 0>>.  The heel    *)
(* angles x and the levers y of a GZ curve are rationals.                  *)
(***************************************************************************)
Pi == <<355, 113>>
NaN == <<0, 0>>

\* float comparison: false as soon as one side is nan
PyGe(a, b) == a # NaN /\ b # NaN /\ RGe(a, b)
PyLe(a, b) == a # NaN /\ b # NaN /\ RLe(a, b)
PyRound(q, k) == IF q = NaN THEN NaN ELSE Round(q, k)

\* lines 38-39 of get_criteria_data: gz_curve is a dict angle -> lever
CurveX(gz_curve) == [k \in 1..Len(gz_curve) |-> R(gz_curve[k][1])]
CurveY(gz_curve) == [k \in 1..Len(gz_curve) |-> gz_curve[k][2]]

\* np.argmax(x >= v), counted from 1: the first position with x >= v, and
\* the first position of all when there is none
ArgMaxGe(x, v) ==
    IF \E i \in 1..Len(x) : RGe(x[i], v)
    THEN MinInt({i \in 1..Len(x) : RGe(x[i], v)})
    ELSE 1

\* scipy trapezoid(y[i..e], x[i..e])
RECURSIVE Trapezoid(_, _, _, _)
Trapezoid(y, x, i, e) ==
    IF i >= e THEN R(0)
    ELSE RAdd(RMul(RSub(x[i + 1], x[i]), RDiv(RAdd(y[i], y[i + 1]), R(2))),
              Trapezoid(y, x, i + 1, e))

\* PlotAreaBetween with the degrees converted to radians once only
PlotAreaBetween_ConvertedOnce(x_vals, y_vals, start_index, end_index) ==
    IF start_index >= Len(x_vals) \/ start_index >= end_index
    THEN R(0)
    ELSE Round(RDiv(RMul(Trapezoid(y_vals, x_vals, start_index, end_index), Pi), R(180)), 2)

\* lines 282-291; the indices count from 1, end_index 0 is Python's -1
PlotAreaBetween(x_vals, y_vals, start_index, end_index) ==
    IF start_index >= Len(x_vals) \/ start_index >= end_index
    THEN R(0)
    ELSE Round(RDiv(RMul(RDiv(RMul(Trapezoid(y_vals, x_vals, start_index, end_index), Pi),
                              R(180)),
                         Pi),
                    R(180)), 2)

\* lines 262-291, called with an end angle by every caller
get_plot_area(x_vals, y_vals, start_x, end_x) ==
    PlotAreaBetween(x_vals, y_vals, ArgMaxGe(x_vals, start_x),
                    IF RLe(end_x, x_vals[Len(x_vals)]) THEN ArgMaxGe(x_vals, end_x) ELSE 0)

\* the area of cr_3 taken from 30 to 40 degrees, as its description reads
Cr3Area_From30(x_vals, y_vals) == get_plot_area(x_vals, y_vals, R(30), R(40))

\* line 98: attained of cr_3
Cr3Area(x_vals, y_vals) == get_plot_area(x_vals, y_vals, R(0), R(40))

\* lines 294-313
get_initial_gmt(x, y) ==
    IF Len(x) < 2 THEN Raise("ValueError")
    ELSE IF x[2] = x[1] THEN Raise("ZeroDivisionError")
    ELSE Return(Round(RSub(RAdd(RMul(RDiv(RSub(y[2], y[1]), RSub(x[2], x[1])),
                                     RDiv(R(180), Pi)),
                                y[1]),
                           RMul(RDiv(RSub(y[2], y[1]), RSub(x[2], x[1])), x[1])), 2))

\* lines 398-407: the zero of the linear interpolant in every interval over
\* which y changes sign
RECURSIVE ZeroCrossings(_, _, _)
ZeroCrossings(x, y, i) ==
    IF i >= Len(x) THEN <<>>
    ELSE IF RLt(RMul(y[i], y[i + 1]), R(0))
    THEN <<RSub(x[i], RDiv(RMul(y[i], RSub(x[i + 1], x[i])), RSub(y[i + 1], y[i])))>>
         \o ZeroCrossings(x, y, i + 1)
    ELSE ZeroCrossings(x, y, i + 1)

\* lines 409-430
StabilityRange(x, y, roots) ==
    IF \A k \in 1..Len(y) : RLe(y[k], R(0))
    THEN [range_of_stability |-> R(0), angle_of_loll |-> R(0)]
    ELSE IF \A k \in 1..Len(y) : RGe(y[k], R(0))
    THEN [range_of_stability |-> RSub(x[Len(x)], x[1]), angle_of_loll |-> x[1]]
    ELSE IF RGe(y[1], R(0))
    THEN [range_of_stability |-> RSub(IF roots # <<>> THEN roots[1] ELSE x[Len(x)], x[1]),
          angle_of_loll |-> x[1]]
    ELSE [range_of_stability |->
              RSub(IF Len(roots) > 1 THEN roots[2] ELSE x[Len(x)],
                   IF roots # <<>> THEN roots[1] ELSE R(0)),
          angle_of_loll |-> IF roots # <<>> THEN roots[1] ELSE R(0)]

calculate_range_of_stability(x, y) == StabilityRange(x, y, ZeroCrossings(x, y, 1))

\* interp1d(x, y, kind="cubic", bounds_error=False) evaluated at v: nan
\* outside the sampled range, the sample itself at a sampled angle (the
\* curves of the model sample 30 degrees or end below it)
InterpolatedAt(x, y, v) ==
    CASE RLt(v, x[1]) \/ RGt(v, x[Len(x)]) -> NaN
      [] InList(x, v) -> y[IndexOf(x, v)]

\* lines 316-335; x_max is the abscissa np.argmax picked among the 1000
\* spline values, which the model takes as given
get_max_righting_lever(x_max) == Round(x_max, 2)

\* math.degrees(math.asin(r)) and math.degrees(math.atan(r)) where the
\* angle is a rational number of degrees
AsinDegrees(r) ==
    CASE r = R(0) -> R(0)
      [] r = Rat(1, 2) -> R(30)
      [] r = Rat(-1, 2) -> R(-30)
      [] r = R(1) -> R(90)
      [] r = R(-1) -> R(-90)
AtanDegrees(r) ==
    CASE r = R(0) -> R(0)
      [] r = R(1) -> R(45)
      [] r = R(-1) -> R(-45)

\* lines 364-366
WindageArea(length, depth, draft) == RMul(length, RSub(depth, draft))
WindageCentroid(length, depth, draft) ==
    RAdd(RDiv(draft, R(2)),
         RDiv(RMul(RDiv(RMul(RSub(depth, draft), RSub(depth, draft)), R(2)), length),
              WindageArea(length, depth, draft)))

\* lines 374-379
WindHeelAngles(depth, breadth, max_draft, angle_of_loll, heeling_ratio) ==
    IF RGt(heeling_ratio, R(1)) \/ RLt(heeling_ratio, R(-1)) THEN Raise("ValueError")
    ELSE IF RIsZero(breadth) THEN Raise("ZeroDivisionError")
    ELSE Return([maximum_angle_of_heel |->
                     Round(AtanDegrees(RDiv(RSub(depth, max_draft), breadth)), 2),
                 static_angle_of_heel |->
                     Round(RAdd(AsinDegrees(heeling_ratio), angle_of_loll), 2)])

\* lines 367-373; 9.812 * 1000 is 9812
WindHeel(depth, breadth, total_weight, gmt_corr, max_draft, angle_of_loll, overturning_moment) ==
    IF RIsZero(RMul(total_weight, gmt_corr)) THEN Raise("ZeroDivisionError")
    ELSE WindHeelAngles(depth, breadth, max_draft, angle_of_loll,
                        RDiv(overturning_moment, RMul(total_weight, gmt_corr)))

\* lines 338-379
get_max_wind_load(length, depth, draft, breadth, wind_load, total_weight, gmt_corr, angle_of_loll, max_draft) ==
    IF RIsZero(WindageArea(length, depth, draft)) THEN Raise("ZeroDivisionError")
    ELSE WindHeel(depth, breadth, total_weight, gmt_corr, max_draft, angle_of_loll,
                  RDiv(RMul(RMul(wind_load, WindageArea(length, depth, draft)),
                            WindageCentroid(length, depth, draft)),
                       R(9812)))

\* lines 226-240: 1.225 is 49/40 and 9.812 is 2453/250
WindageArm(length, depth, draft, total_weight) ==
    RDiv(RMul(RMul(RMul(RMul(Rat(1, 2), Rat(49, 40)), WindageArea(length, depth, draft)),
                   WindageCentroid(length, depth, draft)),
              R(52 * 52)),
         RMul(RMul(Rat(2453, 250), R(1000)), total_weight))
AreaUnderWindageArmCurve(windage_arm, range_of_stability) ==
    RDiv(RMul(RMul(windage_arm, range_of_stability), Pi), R(180))

\* LimitOr that never consults criteria_limits
LimitOr_BuiltInOnly(criteria_limits, cr_no, required) == Return(required)

\* criteria_limits[cr_no]["required"] if cr_no in criteria_limits else required
LimitOr(criteria_limits, cr_no, required) ==
    IF cr_no \in Keys(criteria_limits)
    THEN IF "required" \in DOMAIN Lookup(criteria_limits, cr_no)
         THEN Return(Lookup(criteria_limits, cr_no).required)
         ELSE Raise("KeyError")
    ELSE Return(required)

\* one data block with status = "PASS" if attained >= required else "FAIL"
CriteriaBlock(cr_no, description, unit, type, required, attained) ==
    IF required.kind = "raise" THEN required
    ELSE Return(<<cr_no, [description |-> description,
                          required |-> required.value,
                          unit |-> unit,
                          type |-> type,
                          attained |-> attained,
                          status |-> IF PyGe(attained, required.value)
                                     THEN "PASS" ELSE "FAIL"]>>)

\* WindHeelStatus with the comparison of the other criteria
WindHeelStatus_AtLeast(required, attained) ==
    IF PyGe(attained, required) THEN "PASS" ELSE "FAIL"

\* lines 191-219: the block of cr_8, status by attained <= required
WindHeelStatus(required, attained) ==
    IF PyLe(attained, required) THEN "PASS" ELSE "FAIL"
WindHeelBlock(required, attained) ==
    IF required.kind = "raise" THEN required
    ELSE Return(<<"cr_8", [description |-> "Heel angle under action of steady wind",
                           required |-> required.value,
                           unit |-> "deg",
                           type |-> "weather criteria",
                           attained |-> attained,
                           status |-> WindHeelStatus(required.value, attained)]>>)
WindHeelCriterion(criteria_limits, wind) ==
    IF wind.kind = "raise" THEN wind
    ELSE WindHeelBlock(LimitOr(criteria_limits, "cr_8", wind.value.maximum_angle_of_heel),
                       wind.value.static_angle_of_heel)

\* lines 221-257: the block of cr_9, reached only after cr_8 was computed
WindAreaCriterion(x, y, length, depth, draft, total_weight, criteria_limits, range_of_stability, wind) ==
    IF wind.kind = "raise" THEN wind
    ELSE CriteriaBlock("cr_9", "GZ area exceeds wind heeling arm by 40%", "m rad",
                       "weather criteria",
                       LimitOr(criteria_limits, "cr_9",
                               Round(RMul(Rat(14, 10),
                                          AreaUnderWindageArmCurve(
                                              WindageArm(length, depth, draft, total_weight),
                                              range_of_stability)), 2)),
                       get_plot_area(x, y, R(0), range_of_stability))

\* the blocks in order: the first one that raises ends the call
RECURSIVE CriteriaData(_, _)
CriteriaData(blocks, criteria_data) ==
    IF blocks = <<>> THEN Return(criteria_data)
    ELSE IF blocks[1].kind = "raise" THEN blocks[1]
    ELSE CriteriaData(Tail(blocks), Append(criteria_data, blocks[1].value))

\* lines 47-259
CriteriaBlocks(x, y, stability, length, depth, draft, breadth, total_weight, gmt_corr, max_draft, criteria_limits, x_max, gmt) ==
    CriteriaData(
        << CriteriaBlock("cr_1", "Area under gz curve from 0 to 30", "m rad",
                         "stability criteria", LimitOr(criteria_limits, "cr_1", Rat(55, 1000)),
                         get_plot_area(x, y, R(0), R(30))),
           CriteriaBlock("cr_2", "Area under gz curve from 0 to 40", "m rad",
                         "stability criteria", LimitOr(criteria_limits, "cr_2", Rat(9, 100)),
                         get_plot_area(x, y, R(0), R(40))),
           CriteriaBlock("cr_3", "Area under gz curve from 30 to 40", "m rad",
                         "stability criteria", LimitOr(criteria_limits, "cr_3", Rat(3, 100)),
                         Cr3Area(x, y)),
           CriteriaBlock("cr_4", "Righting lever at 30 angle of heel", "m",
                         "stability criteria", LimitOr(criteria_limits, "cr_4", Rat(20, 100)),
                         PyRound(InterpolatedAt(x, y, R(30)), 2)),
           CriteriaBlock("cr_5", "Angle of maximum GZ", "deg",
                         "stability criteria", LimitOr(criteria_limits, "cr_5", R(20)),
                         get_max_righting_lever(x_max)),
           IF gmt.kind = "raise" THEN gmt
           ELSE CriteriaBlock("cr_6", "Initial GM", "m",
                              "stability criteria",
                              LimitOr(criteria_limits, "cr_6", Rat(15, 100)), gmt.value),
           CriteriaBlock("cr_7", "Range of stability", "deg",
                         "stability criteria", LimitOr(criteria_limits, "cr_7", R(36)),
                         Round(stability.range_of_stability, 2)),
           WindHeelCriterion(criteria_limits,
                             get_max_wind_load(length, depth, draft, breadth, R(540),
                                               total_weight, gmt_corr,
                                               stability.angle_of_loll, max_draft)),
           WindAreaCriterion(x, y, length, depth, draft, total_weight, criteria_limits,
                             stability.range_of_stability,
                             get_max_wind_load(length, depth, draft, breadth, R(540),
                                               total_weight, gmt_corr,
                                               stability.angle_of_loll, max_draft)) >>,
        <<>>)

\* lines 8-259; interp1d of kind "cubic" needs four samples.  x_max stands
\* for what np.argmax finds on the spline (get_max_righting_lever).
get_criteria_data(gz_curve, length, depth, draft, breadth, total_weight, gmt_corr, max_draft, criteria_limits, x_max) ==
    IF Len(gz_curve) < 4 THEN Raise("ValueError")
    ELSE CriteriaBlocks(CurveX(gz_curve), CurveY(gz_curve),
                        calculate_range_of_stability(CurveX(gz_curve), CurveY(gz_curve)),
                        length, depth, draft, breadth, total_weight, gmt_corr, max_draft,
                        criteria_limits, x_max,
                        get_initial_gmt(CurveX(gz_curve), CurveY(gz_curve)))

(***************************************************************************)
(* Argument domains of the crane routines                                  *)
(***************************************************************************)
MaxRows == 3
MaxOutreachSteps == 7

RadiusGrid == {0, 10, 20, 30}
SwlGrid == {50, 80, 100}

IsAscending(rows) == \A k \in 1..(Len(rows) - 1) : rows[k][1] <= rows[k + 1][1]
IsStrictlyAscending(rows) == \A k \in 1..(Len(rows) - 1) : rows[k][1] < rows[k + 1][1]

\* a curve with a repeated radius and curves that are not sorted by radius
OtherCurves ==
    { <<<<10, 100>>, <<10, 80>>, <<20, 50>>>>,
      <<<<30, 50>>, <<10, 100>>, <<20, 80>>>>,
      <<<<20, 80>>, <<10, 100>>>> }

\* the load curves with strictly ascending radii, and the others
LoadCurves ==
    {t \in SeqsUpTo(RadiusGrid \X SwlGrid, MaxRows) : IsStrictlyAscending(t)} \cup OtherCurves

Outreaches == {5 * k : k \in 0..MaxOutreachSteps}

LiftFactors ==
    [Mrigging : {0, 5}, Mhook : {0}, WCFrigging : {1}, WCF : {1},
     DAF : {0, 1, 2}, DAFincl : {0, 1}, Mblock : {0, 10}]

CargoWeights == {0, 60}

UtilizationValues == {Rat(-1, 2), R(0), Rat(1, 2), R(1), Rat(6, 5), Rat(13, 10)}
BoomLengths == {-20, 0, 10, 40}

\* ship["Crane Data"]: boom -> operation -> file -> load curve
CurveA == <<<<10, 100>>, <<20, 80>>, <<30, 50>>>>
CurveB == <<<<10, 60>>, <<30, 20>>>>
CsvKey(stem) == [stem |-> stem, ext |-> "csv"]

ShipCraneTables ==
    { << <<"Main Boom",
           << <<"Lift", << <<[stem |-> "readme", ext |-> "txt"], <<>> >>,
                           <<CsvKey("10"), CurveA>>,
                           <<CsvKey("20"), CurveB>> >> >> >> >> >>,
      << <<"Fly Boom", << <<"Lift", << <<[stem |-> "readme", ext |-> "txt"], <<>> >> >> >> >> >>,
         <<"Main Boom", << <<"Tow", <<>> >>,
                           <<"Lift", << <<CsvKey("20"), CurveB>>,
                                        <<CsvKey("10"), CurveA>> >> >> >> >> >>,
      <<>> }

Selections(key, values) == {<<>>} \cup {[k \in {key} |-> v] : v \in values}

\* boomdata: each selector absent, empty or chosen
BoomData ==
    { b @@ o @@ h : b \in Selections("boom", {None, "", "Main Boom", "Fly Boom"}),
                    o \in Selections("operation", {"Lift", "Tow"}),
                    h \in Selections("height", {"10", "30"}) }

\* ship["crane_data.json"]: crane -> [details]
PedestalBase == <<0, 0, 10>>
CraneDataSets ==
    { << <<"crane_1", [pedestal_base_point |-> PedestalBase,
                       boom_tip_point |-> [keyed |-> TRUE,
                                           tips |-> << <<"Main", <<40, 0, 30>> >> >>]]>> >>,
      << <<"crane_1", [pedestal_base_point |-> PedestalBase,
                       boom_tip_point |-> [keyed |-> FALSE, tip |-> <<40, 0, 30>>]]>>,
         <<"crane_2", [pedestal_base_point |-> PedestalBase,
                       boom_tip_point |-> [keyed |-> FALSE, tip |-> <<40, 0, 30>>]]>> >>,
      << <<"crane_1", [pedestal_base_point |-> PedestalBase,
                       boom_tip_point |-> [keyed |-> FALSE, tip |-> <<0, 30, 30>>]]>> >>,
      << <<"crane_2", [pedestal_base_point |-> PedestalBase,
                       boom_tip_point |-> [keyed |-> FALSE, tip |-> <<40, 0, 30>>]]>> >>,
      << <<"crane_1", [pedestal_base_point |-> PedestalBase,
                       boom_tip_point |-> [keyed |-> FALSE, tip |-> <<20, 0, 30>>]]>> >> }

\* cargo_data = {"crane_1": [weight, lcg, tcg, vcg]}
CargoPoints == {<<0, 0>>, <<10, 0>>, <<15, 20>>, <<45, 0>>}
CargoData ==
    { << <<"crane_1", <<w, pt[1], pt[2], 0>> >> >> : w \in {40, 120}, pt \in CargoPoints }

CraneFactors ==
    [Mrigging : {0}, Mhook : {0}, WCFrigging : {1}, WCF : {1},
     DAF : {1, 2}, DAFincl : {0, 1}, Mblock : {0, 100}]

(***************************************************************************)
(* Argument domains of get_criteria_data                                   *)
(***************************************************************************)
CriteriaIds == {"cr_1", "cr_2", "cr_3", "cr_4", "cr_5", "cr_6", "cr_7", "cr_8", "cr_9"}

\* GZ curves: heel angle -> righting lever
GzCurves ==
    { << <<0, R(0)>>, <<10, R(8)>>, <<20, R(8)>>, <<30, R(8)>> >>,
      << <<0, R(0)>>, <<10, Rat(1, 10)>>, <<20, Rat(9, 50)>>, <<30, Rat(1, 5)>> >>,
      << <<0, R(0)>>, <<10, R(4)>>, <<20, R(8)>>, <<30, R(6)>>, <<40, R(2)>> >>,
      << <<0, R(0)>>, <<10, R(4)>>, <<20, R(2)>>, <<30, R(-2)>> >>,
      << <<0, R(2)>>, <<10, R(4)>>, <<20, R(0)>>, <<30, R(-2)>> >>,
      << <<0, R(-1)>>, <<10, R(2)>>, <<20, R(4)>>, <<30, R(-2)>> >>,
      << <<0, R(0)>>, <<10, R(-1)>>, <<20, R(-2)>>, <<30, R(-3)>> >>,
      << <<0, R(0)>>, <<5, R(2)>>, <<10, R(4)>>, <<20, R(6)>> >>,
      << <<0, R(0)>>, <<15, R(4)>>, <<30, R(8)>>, <<45, R(4)>>, <<60, R(0)>> >>,
      << <<0, R(0)>>, <<10, R(1)>>, <<20, R(2)>> >> }

\* GZ curves sampled every 10 degrees from 0 degrees
MaxSamples == 4
LeverValues == {-2, -1, 0, 1, 3}
SampledCurves ==
    UNION { {[k \in 1..n |-> <<10 * (k - 1), R(lever[k])>>] : lever \in [1..n -> LeverValues]}
            : n \in 1..MaxSamples }

\* vessel particulars and loading; with length 100, depth 10 and draft 5
\* the wind moment is 337500/2453 t m
Vessels ==
    [length : {100}, depth : {10}, draft : {5}, breadth : {10}, total_weight : {8281},
     gmt_corr : {Rat(675000, 20313293), Rat(337500, 20313293), Rat(168750, 20313293),
                 Rat(-675000, 20313293)},
     max_draft : {0, 10, 20}]
    \cup
    [length : {0, 100}, depth : {10}, draft : {5, 10}, breadth : {0, 10},
     total_weight : {0, 8281}, gmt_corr : {Rat(675000, 20313293)}, max_draft : {0}]

\* criteria_limits of the request: nothing, one criterion overridden, two
\* overridden, an entry without "required", an id that is no criterion
CriteriaLimits ==
    {<<>>}
    \cup { << <<k, [required |-> q]>> >> : k \in CriteriaIds, q \in {Rat(1, 100), R(50)} }
    \cup { << <<"cr_2", [required |-> R(0)]>>, <<"cr_8", [required |-> R(20)]>> >>,
           << <<"cr_1", [unit |-> "m"]>> >>,
           << <<"cr_10", [required |-> R(1)]>> >> }

(***************************************************************************)
(* helpers.get_gz_curve and helpers.optimize_trim                          *)
(*                                                                         *)
(* ship["Hydrostatics"] and ship["Cross Curves"] are dicts from a file     *)
(* name to a frame; a frame is a sequence of <<column name, column>>       *)
(* pairs in column order and a column is a sequence of numbers.            *)
(*                                                                         *)
(* scipy's RegularGridInterpolator is used as both routines construct it:  *)
(* method="linear", bounds_error=False, fill_value=None.  With these       *)
(* arguments a query outside the grid is evaluated in the nearest edge     *)
(* cell with the same linear formula, the normalised distance being less   *)
(* than 0 or greater than 1 there.                                         *)
(***************************************************************************)
\* float(x[:-4]) of the file names of the trim tables
TrimOfFile ==
    << <<"-1.csv", -1>>, <<"0.csv", 0>>, <<"1.csv", 1>>, <<"2.csv", 2>>, <<"3.csv", 3>>,
       <<"4.csv", 4>>, <<"5.csv", 5>>, <<"6.csv", 6>>, <<"7.csv", 7>>, <<"8.csv", 8>> >>
FileTrim(name) == R(Lookup(TrimOfFile, name))

\* [val for val in kn]: the keys of a dict in insertion order
FileNames(dict) == [k \in 1..Len(dict) |-> dict[k][1]]

\* sorted(..., key=lambda x: float(x[:-4])): a stable insertion by trim
RECURSIVE InsertByTrim(_, _)
InsertByTrim(sorted, name) ==
    IF sorted = <<>> THEN <<name>>
    ELSE IF RLt(FileTrim(name), FileTrim(sorted[1])) THEN <<name>> \o sorted
    ELSE <<sorted[1]>> \o InsertByTrim(Tail(sorted), name)
RECURSIVE SortedByTrim(_)
SortedByTrim(names) ==
    IF names = <<>> THEN <<>>
    ELSE InsertByTrim(SortedByTrim(SubSeq(names, 1, Len(names) - 1)), names[Len(names)])

TrimVals(trim_data) == [t \in 1..Len(trim_data) |-> FileTrim(trim_data[t])]

\* list(frame.columns)
ColumnNames(frame) == [k \in 1..Len(frame) |-> frame[k][1]]

\* [dict[val][column].tolist() for val in trim_data]
GridValues(dict, trim_data, column) ==
    [t \in 1..Len(trim_data) |-> Lookup(Lookup(dict, trim_data[t]), column)]

\* every trim table has the column
ColumnInAll(dict, column) == \A t \in 1..Len(dict) : column \in Keys(dict[t][2])

\* RegularGridInterpolator.__init__: each axis strictly ascending with at
\* least two points, and one value per grid point
StrictlyAscending(grid) == \A i \in 1..(Len(grid) - 1) : RLt(grid[i], grid[i + 1])
GridOk(trim_vals, weight_vals, values) ==
    /\ Len(trim_vals) >= 2
    /\ Len(weight_vals) >= 2
    /\ StrictlyAscending(trim_vals)
    /\ StrictlyAscending(weight_vals)
    /\ Len(values) = Len(trim_vals)
    /\ \A t \in 1..Len(values) : Len(values[t]) = Len(weight_vals)

\* np.searchsorted(grid, v): the number of grid points below v
SearchSorted(grid, v) == Cardinality({i \in 1..Len(grid) : RLt(grid[i], v)})
\* the lower grid point of the cell used for v, kept inside the grid
ClipCell(i, n) == IF i < 1 THEN 1 ELSE IF i > n - 1 THEN n - 1 ELSE i
CellIndex(grid, v) == ClipCell(SearchSorted(grid, v), Len(grid))
\* (v - grid[i]) / (grid[i + 1] - grid[i]), not limited to 0..1
\* the same distance limited to 0..1: the query moved to the nearest bound
NormDistance_Clamped(grid, i, v) ==
    IF RLt(v, grid[i]) THEN R(0) ELSE IF RGt(v, grid[i + 1]) THEN R(1)
    ELSE RDiv(RSub(v, grid[i]), RSub(grid[i + 1], grid[i]))
NormDistance(grid, i, v) == RDiv(RSub(v, grid[i]), RSub(grid[i + 1], grid[i]))
Lerp(a, b, t) == RAdd(a, RMul(t, RSub(b, a)))
Bilinear(values, i, j, tx, ty) ==
    Lerp(Lerp(values[i][j], values[i][j + 1], ty),
         Lerp(values[i + 1][j], values[i + 1][j + 1], ty), tx)
GridInterpolateIn(trim_vals, weight_vals, values, i, j, trim, weight) ==
    Bilinear(values, i, j, NormDistance(trim_vals, i, trim), NormDistance(weight_vals, j, weight))
\* param_val((trim, weight)).tolist()
GridInterpolate(trim_vals, weight_vals, values, trim, weight) ==
    GridInterpolateIn(trim_vals, weight_vals, values, CellIndex(trim_vals, trim),
                      CellIndex(weight_vals, weight), trim, weight)

\* float(angle) of a column label; any other label is a ValueError
HeelOfLabel == << <<"0", 0>>, <<"90", 90>>, <<"180", 180>>, <<"270", 270>> >>
IsNumber(label) == label \in Keys(HeelOfLabel)
Float(label) == R(Lookup(HeelOfLabel, label))
\* math.sin(math.radians(a)) and math.cos(math.radians(a)) at the angles
\* where both are rational
SinDegrees(a) ==
    CASE a = R(0) -> R(0)
      [] a = R(90) -> R(1)
      [] a = R(180) -> R(0)
      [] a = R(270) -> R(-1)
CosDegrees(a) ==
    CASE a = R(0) -> R(1)
      [] a = R(90) -> R(0)
      [] a = R(180) -> R(-1)
      [] a = R(270) -> R(0)

\* the columns from the third on
HeelRange_FromThird(zero_table) == SubSeq(ColumnNames(zero_table), 3, Len(zero_table))
\* line 102
HeelRange(zero_table) == SubSeq(ColumnNames(zero_table), 2, Len(zero_table))

\* lines 120-123
KnCurve(kn, trim_data, weight_vals, heel_range, trim, weight) ==
    [h \in 1..Len(heel_range) |->
        <<heel_range[h],
          GridInterpolate(TrimVals(trim_data), weight_vals,
                          GridValues(kn, trim_data, heel_range[h]), trim, weight)>>]

\* lines 125-129
Gz(kn_val, vcg, tcg, angle) ==
    RSub(RSub(kn_val, RMul(vcg, SinDegrees(angle))), RMul(tcg, CosDegrees(angle)))

\* lines 124-131
GzCurveOf(kn_curve, vcg, tcg) ==
    IF \E h \in 1..Len(kn_curve) : ~IsNumber(kn_curve[h][1]) THEN Raise("ValueError")
    ELSE Return([h \in 1..Len(kn_curve) |->
                    <<kn_curve[h][1], Gz(kn_curve[h][2], vcg, tcg, Float(kn_curve[h][1]))>>])

\* lines 106-131
GzOnGrid(kn, trim_data, weight_vals, heel_range, weight, vcg, tcg, trim) ==
    IF \E h \in 1..Len(heel_range) : ~ColumnInAll(kn, heel_range[h]) THEN Raise("KeyError")
    ELSE IF \E h \in 1..Len(heel_range) :
                ~GridOk(TrimVals(trim_data), weight_vals, GridValues(kn, trim_data, heel_range[h]))
    THEN Raise("ValueError")
    ELSE GzCurveOf(KnCurve(kn, trim_data, weight_vals, heel_range, trim, weight), vcg, tcg)

\* lines 102-105
GzFromZeroTable(kn, zero_table, weight, vcg, tcg, trim) ==
    IF "DISPLACEMENT" \notin Keys(zero_table) THEN Raise("KeyError")
    ELSE GzOnGrid(kn, SortedByTrim(FileNames(kn)), Lookup(zero_table, "DISPLACEMENT"),
                  HeelRange(zero_table), weight, vcg, tcg, trim)

get_gz_curve(ship, weight, vcg, tcg, trim) ==
    IF "0.csv" \notin Keys(ship["Cross Curves"]) THEN Raise("KeyError")
    ELSE GzFromZeroTable(ship["Cross Curves"], Lookup(ship["Cross Curves"], "0.csv"),
                         weight, vcg, tcg, trim)

\* line 151
Params == <<"draft", "lcb", "vcb", "lcf", "kml", "kmt", "mct", "tpc">>

\* zip(weight_data, params) pairs the weight column of the i-th trim table
\* with the i-th parameter and stops at the shorter of the two lists
InterpCount(trim_data) == IF Len(trim_data) < Len(Params) THEN Len(trim_data) ELSE Len(Params)
WeightData(hs, trim_data) == GridValues(hs, trim_data, "weight")

\* lines 162-171
HydroGridsOk(hs, trim_data) ==
    \A i \in 1..InterpCount(trim_data) :
        GridOk(TrimVals(trim_data), WeightData(hs, trim_data)[i], GridValues(hs, trim_data, Params[i]))

\* lines 176-179 and 183-186: {param: param_val((trim_meter, weight)).tolist() ...}
FloatingStatus(hs, trim_data, trim_meter, weight) ==
    [i \in 1..InterpCount(trim_data) |->
        <<Params[i],
          GridInterpolate(TrimVals(trim_data), WeightData(hs, trim_data)[i],
                          GridValues(hs, trim_data, Params[i]), trim_meter, weight)>>]

\* line 181, the denominator not zero
TrimMeter(weight, lcb, lcg, mct) == RDiv(RMul(weight, RSub(lcb, lcg)), RMul(mct, R(100)))

\* math.degrees(math.atan(q)): the angle where it is rational, the term
\* <<"degrees(atan)", n, d>> for q = n/d elsewhere
DegreesAtan(q) == IF q \in {R(0), R(1), R(-1)} THEN AtanDegrees(q) ELSE <<"degrees(atan)", q[1], q[2]>>

\* lines 189-195
Derived(status, trim_meter, trim_deg, heel, vcg, vcg_corr) ==
    << <<"draft_aft", RAdd(Lookup(status, "draft"), RDiv(trim_meter, R(2)))>>,
       <<"draft_fwd", RSub(Lookup(status, "draft"), RDiv(trim_meter, R(2)))>>,
       <<"trim", trim_deg>>,
       <<"heel", heel>>,
       <<"gmt_solid", RSub(Lookup(status, "kmt"), vcg)>>,
       <<"gmt_liquid", RSub(Lookup(status, "kmt"), vcg_corr)>>,
       <<"gml", RSub(Lookup(status, "kml"), vcg)>> >>

\* lines 188-196
Floating(status, trim_meter, tcg, vcg, vcg_corr, length) ==
    IF RIsZero(length) THEN Raise("ZeroDivisionError")
    ELSE IF RIsZero(RSub(Lookup(status, "kmt"), vcg_corr)) THEN Raise("ZeroDivisionError")
    ELSE Return(status \o Derived(status, trim_meter, DegreesAtan(RDiv(trim_meter, length)),
                                  DegreesAtan(RDiv(tcg, RSub(Lookup(status, "kmt"), vcg_corr))),
                                  vcg, vcg_corr))

\* the values of the evaluation at trim 0 kept in the floating status
SecondPass_AtZeroTrim(hs, trim_data, trim_meter, weight, tcg, vcg, vcg_corr, length) ==
    Floating(FloatingStatus(hs, trim_data, R(0), weight), trim_meter, tcg, vcg, vcg_corr, length)
\* lines 183-186
SecondPass(hs, trim_data, trim_meter, weight, tcg, vcg, vcg_corr, length) ==
    Floating(FloatingStatus(hs, trim_data, trim_meter, weight), trim_meter, tcg, vcg, vcg_corr, length)

\* trim_meter left at 0 when the first-pass MCT is 0
TrimFromFirstPass_ZeroFallback(hs, trim_data, first, weight, lcg, tcg, vcg, vcg_corr, length) ==
    IF "lcb" \notin Keys(first) \/ "mct" \notin Keys(first) THEN Raise("KeyError")
    ELSE IF RIsZero(RMul(Lookup(first, "mct"), R(100)))
    THEN SecondPass(hs, trim_data, R(0), weight, tcg, vcg, vcg_corr, length)
    ELSE SecondPass(hs, trim_data,
                    TrimMeter(weight, Lookup(first, "lcb"), lcg, Lookup(first, "mct")),
                    weight, tcg, vcg, vcg_corr, length)
\* line 181
TrimFromFirstPass(hs, trim_data, first, weight, lcg, tcg, vcg, vcg_corr, length) ==
    IF "lcb" \notin Keys(first) \/ "mct" \notin Keys(first) THEN Raise("KeyError")
    ELSE IF RIsZero(RMul(Lookup(first, "mct"), R(100))) THEN Raise("ZeroDivisionError")
    ELSE SecondPass(hs, trim_data,
                    TrimMeter(weight, Lookup(first, "lcb"), lcg, Lookup(first, "mct")),
                    weight, tcg, vcg, vcg_corr, length)

\* lines 156-179
OptimizeOnTables(hs, trim_data, weight, lcg, tcg, vcg, vcg_corr, length) ==
    IF \E i \in 1..Len(Params) : ~ColumnInAll(hs, Params[i]) THEN Raise("KeyError")
    ELSE IF ~ColumnInAll(hs, "weight") THEN Raise("KeyError")
    ELSE IF ~HydroGridsOk(hs, trim_data) THEN Raise("ValueError")
    ELSE TrimFromFirstPass(hs, trim_data, FloatingStatus(hs, trim_data, R(0), weight),
                           weight, lcg, tcg, vcg, vcg_corr, length)

optimize_trim(ship, weight, lcg, tcg, vcg, vcg_corr, length) ==
    OptimizeOnTables(ship["Hydrostatics"], SortedByTrim(FileNames(ship["Hydrostatics"])),
                     weight, lcg, tcg, vcg, vcg_corr, length)

(***************************************************************************)
(* Argument domains of get_gz_curve and optimize_trim                      *)
(***************************************************************************)
TableRows == 1..3

\* the weight column of the table at trim t: the same in every table when
\* stagger = 0, shifted by stagger per unit of trim otherwise
WeightColumn(t, stagger) == [k \in TableRows |-> R(100 * k + stagger * t)]

HydroColumn(param, t, k, mct) ==
    CASE param = "draft" -> R(2 * k + t)
      [] param = "lcb" -> R(10 + k)
      [] param = "vcb" -> R(k)
      [] param = "lcf" -> R(9 + k + t)
      [] param = "kml" -> R(50 - k)
      [] param = "kmt" -> R(8 + t)
      [] param = "mct" -> R(mct)
      [] param = "tpc" -> R(3 + k)

HydroFrame(t, stagger, mct) ==
    << <<"weight", WeightColumn(t, stagger)>> >>
    \o [i \in 1..Len(Params) |-> <<Params[i], [k \in TableRows |-> HydroColumn(Params[i], t, k, mct)]>>]

HydroFileLists ==
    { <<"0.csv", "1.csv">>,
      <<"0.csv", "1.csv", "2.csv", "3.csv", "4.csv", "5.csv", "6.csv">>,
      <<"0.csv", "1.csv", "2.csv", "3.csv", "4.csv", "5.csv", "6.csv", "7.csv">>,
      <<"3.csv", "7.csv", "0.csv", "1.csv", "2.csv", "6.csv", "5.csv", "4.csv">>,
      <<"-1.csv", "0.csv", "1.csv", "2.csv", "3.csv", "4.csv", "5.csv", "6.csv", "7.csv">> }

Hydrostatics(files, stagger, mct) ==
    [i \in 1..Len(files) |-> <<files[i], HydroFrame(Lookup(TrimOfFile, files[i]), stagger, mct)>>]

HydroShips ==
    { [key \in {"Hydrostatics"} |-> Hydrostatics(files, stagger, mct)] :
        files \in HydroFileLists, stagger \in {0, 50}, mct \in {0, 1} }

\* column layouts of a cross-curve table: displacement first and the heel
\* angles ascending, descending, or displacement last
CrossLayouts ==
    { <<"DISPLACEMENT", "0", "90", "180">>,
      <<"DISPLACEMENT", "180", "90", "0">>,
      <<"DISPLACEMENT", "0", "90">>,
      <<"0", "90", "DISPLACEMENT">> }

CrossColumn(label, t, stagger) ==
    IF label = "DISPLACEMENT" THEN WeightColumn(t, stagger)
    ELSE [k \in TableRows |-> R((Lookup(HeelOfLabel, label) \div 90 + 1) * k + t)]

CrossFrame(t, layout, stagger) ==
    [c \in 1..Len(layout) |-> <<layout[c], CrossColumn(layout[c], t, stagger)>>]

CrossFileLists ==
    { <<"0.csv", "1.csv">>,
      <<"1.csv", "0.csv", "2.csv">>,
      <<"-1.csv", "0.csv", "1.csv">>,
      <<"1.csv", "2.csv">> }

CrossCurves(files, layout, stagger) ==
    [i \in 1..Len(files) |-> <<files[i], CrossFrame(Lookup(TrimOfFile, files[i]), layout, stagger)>>]

CrossShips ==
    { [key \in {"Cross Curves"} |-> CrossCurves(files, layout, stagger)] :
        files \in CrossFileLists, layout \in CrossLayouts, stagger \in {0, 50} }

ShipWeights == {R(50), R(100), R(150), R(200), R(400)}
TrimQueries == {R(-2), R(0), Rat(1, 2), R(1), R(3)}

(***************************************************************************)
(* ls_plot.get_ls_plot                                                     *)
(*                                                                         *)
(* A distribution file of the ship is a record [x, y] of two columns.  A   *)
(* float that is not finite is written with denominator 0: <<0, 0>> is     *)
(* nan, <<1, 0>> is inf and <<-1, 0>> is -inf.                             *)
(***************************************************************************)
\* lines 98-110 and 113-125
get_lightship_distribution(ship) == ship["lightship_distribution.csv"]
get_ls_buoyancy_distribution(ship) == ship["buoyancy_distribution.csv"]

\* lines 212-234: one [weight, aft extent, forward extent] per loaded tank
TankExtent(ship, tank) ==
    <<tank.weight, Lookup(ship["tank_extent.json"], tank.tank_name).aft_extent,
      Lookup(ship["tank_extent.json"], tank.tank_name).forward_extent>>
IsLoaded(tank) == ~RIsZero(tank.weight)
LoadedTanks(tank_data) == SelectSeq(tank_data, IsLoaded)
TankExtents(ship, loaded) == [k \in 1..Len(loaded) |-> TankExtent(ship, loaded[k])]
get_tank_weight_distribution(ship, tank_data) ==
    IF \E k \in 1..Len(tank_data) :
            IsLoaded(tank_data[k]) /\ tank_data[k].tank_name \notin Keys(ship["tank_extent.json"])
    THEN Raise("KeyError")
    ELSE Return(TankExtents(ship, LoadedTanks(tank_data)))

\* lines 192-209
CargoExtent(cargo) ==
    <<cargo.weight, RSub(cargo.lcg, RDiv(cargo.length, R(2))), RAdd(cargo.lcg, RDiv(cargo.length, R(2)))>>
get_cargo_weight_distribution(cargo_data) == [k \in 1..Len(cargo_data) |-> CargoExtent(cargo_data[k])]

\* line 173: the stations strictly inside the extent of dn
IndicesInRange(x_vals, dn) == {i \in 1..Len(x_vals) : RLt(dn[2], x_vals[i]) /\ RLt(x_vals[i], dn[3])}
FirstIndex(indices) == CHOOSE i \in indices : \A j \in indices : i <= j
\* lines 183-186
Apportioned(x_vals, dn, index, from, additional_weight) ==
    Round(RAdd(RMul(dn[1], RDiv(RSub(x_vals[index], from), RSub(dn[3], dn[2]))), additional_weight), 2)
\* lines 179-186
AddWeight(x_vals, distribution, dn, indices) ==
    [i \in 1..Len(distribution) |->
        IF i \notin indices THEN distribution[i]
        ELSE IF i = FirstIndex(indices) THEN Apportioned(x_vals, dn, i, dn[2], distribution[i])
        ELSE Apportioned(x_vals, dn, i, x_vals[i - 1], distribution[i])]
\* lines 156-188: the weight distribution after the first n entries of distribution_list
RECURSIVE WeightDn(_, _, _, _)
WeightDn(x_vals, lightship_distribution, distribution_list, n) ==
    IF n = 0 THEN lightship_distribution
    ELSE AddWeight(x_vals, WeightDn(x_vals, lightship_distribution, distribution_list, n - 1),
                   distribution_list[n], IndicesInRange(x_vals, distribution_list[n]))
get_weight_dn(x_vals, lightship_distribution, distribution_list) ==
    WeightDn(x_vals, lightship_distribution, distribution_list, Len(distribution_list))

\* line 145: interp1d(..., kind='linear', bounds_error=False, fill_value=0)
SegmentOf(xs, x) == CHOOSE i \in 1..(Len(xs) - 1) : RLe(xs[i], x) /\ RLe(x, xs[i + 1])
OnSegment(xs, ys, i, x) ==
    RAdd(RMul(RDiv(RSub(ys[i + 1], ys[i]), RSub(xs[i + 1], xs[i])), RSub(x, xs[i])), ys[i])
BdInterp(xs, ys, x) ==
    IF RLt(x, xs[1]) \/ RGt(x, xs[Len(xs)]) THEN R(0) ELSE OnSegment(xs, ys, SegmentOf(xs, x), x)

\* line 147, length not 0
DraftAt(x, length, draft_aft, trim) ==
    IF ~RIsZero(x) THEN RAdd(draft_aft, RDiv(trim, RMul(length, x)))
    ELSE RAdd(draft_aft, RDiv(trim, length))

\* the relative difference alone, without the 1
CorrectionFactor_DifferenceOnly(sum_w, sum_b) ==
    IF ~RIsZero(sum_b) THEN RDiv(RSub(sum_w, sum_b), sum_b)
    ELSE IF RIsZero(sum_w) THEN <<0, 0>>
    ELSE IF RGt(sum_w, R(0)) THEN <<1, 0>> ELSE <<-1, 0>>
\* line 150: 1 + (sum_w - sum_b) / sum_b with sum_b a numpy float
CorrectionFactor(sum_w, sum_b) ==
    IF ~RIsZero(sum_b) THEN RAdd(R(1), RDiv(RSub(sum_w, sum_b), sum_b))
    ELSE IF RIsZero(sum_w) THEN <<0, 0>>
    ELSE IF RGt(sum_w, R(0)) THEN <<1, 0>> ELSE <<-1, 0>>
IsFinite(q) == q[2] # 0
\* the station value left without the correction
Scaled_Uncorrected(bd, factor) == bd
\* line 151: bd * correction_factor
Scaled(bd, factor) ==
    IF IsFinite(factor) THEN RMul(bd, factor)
    ELSE IF RIsZero(bd) \/ factor = <<0, 0>> THEN <<0, 0>>
    ELSE IF RGt(bd, R(0)) THEN factor ELSE <<-factor[1], 0>>
\* lines 150-153
Corrected(buoyancy_distribution, factor) ==
    [k \in 1..Len(buoyancy_distribution) |-> Scaled(buoyancy_distribution[k], factor)]
\* line 148
Uncorrected(sample_y_vals, draft_vals, total_dead_weight, sum_drafts) ==
    [k \in 1..Len(sample_y_vals) |->
        RAdd(sample_y_vals[k], RDiv(RMul(total_dead_weight, draft_vals[k]), sum_drafts))]
\* lines 148-153
BuoyancyOf(uncorrected, weight_distribution) ==
    Return(Corrected(uncorrected, CorrectionFactor(RSum(weight_distribution), RSum(uncorrected))))
BuoyancyOnDrafts(sample_y_vals, draft_vals, weight_distribution, total_dead_weight) ==
    IF RIsZero(RSum(draft_vals)) THEN Raise("ZeroDivisionError")
    ELSE BuoyancyOf(Uncorrected(sample_y_vals, draft_vals, total_dead_weight, RSum(draft_vals)),
                    weight_distribution)
get_buoyancy_distribution(x_vals, weight_distribution, ls_x_vals, ls_buoyancy_distribution, total_dead_weight, length, draft_aft, trim) ==
    IF RIsZero(length) \/ x_vals = <<>> THEN Raise("ZeroDivisionError")
    ELSE BuoyancyOnDrafts([k \in 1..Len(x_vals) |-> BdInterp(ls_x_vals, ls_buoyancy_distribution, x_vals[k])],
                          [k \in 1..Len(x_vals) |-> DraftAt(x_vals[k], length, draft_aft, trim)],
                          weight_distribution, total_dead_weight)

\* 9.81
Gravity == Rat(981, 100)
\* lines 47-51: the shear force at the first n stations
RECURSIVE ShearForce(_, _, _)
ShearNext(sf, wd, bd, n) ==
    Append(sf, R(RoundHalfEven(RAdd(RMul(RSub(bd[n], wd[n]), Gravity), sf[n - 1]))))
ShearForce(wd, bd, n) ==
    IF n = 0 THEN <<>>
    ELSE IF n = 1 THEN <<R(RoundHalfEven(RMul(RSub(bd[1], wd[1]), Gravity)))>>
    ELSE ShearNext(ShearForce(wd, bd, n - 1), wd, bd, n)

\* lines 53-64: the running integral of the shear force at the first n stations
RECURSIVE SfVarList(_, _, _)
SfVarNext(sf_var_list, x_val, sf, n) ==
    Append(sf_var_list,
           RAdd(RMul(RAdd(RMul(Rat(1, 2), RSub(sf[n], sf[n - 1])), sf[n - 1]),
                     RSub(x_val[n], x_val[n - 1])),
                sf_var_list[n - 1]))
SfVarList(x_val, sf, n) ==
    IF n = 0 THEN <<>>
    ELSE IF n = 1 THEN <<R(0)>>
    ELSE SfVarNext(SfVarList(x_val, sf, n - 1), x_val, sf, n)

\* lines 65-67, the last station not at 0
BendingMoment(x_val, sf_var_list) ==
    [k \in 1..Len(sf_var_list) |->
        Round(RSub(sf_var_list[k],
                   RMul(sf_var_list[Len(sf_var_list)], RDiv(x_val[k], x_val[Len(x_val)]))), 2)]

RAbs(q) == IF q[1] < 0 THEN RNeg(q) ELSE q
\* max(values, key=abs) and values.index(...): the first index of the largest magnitude
MaxAbsIndex(values) ==
    CHOOSE i \in 1..Len(values) :
        /\ \A j \in 1..Len(values) : RLe(RAbs(values[j]), RAbs(values[i]))
        /\ \A j \in 1..(i - 1) : RLt(RAbs(values[j]), RAbs(values[i]))

\* lines 77-95
LsResult(x_val, wd, bd, sf, bm, sf_max_value, bm_max_value, sf_limit, bm_limit) ==
    IF RIsZero(sf_limit) \/ RIsZero(bm_limit) THEN Raise("ZeroDivisionError")
    ELSE Return([location |-> x_val, wd |-> wd, bd |-> bd, sf |-> sf, bm |-> bm,
                 checks |-> [sf_limit |-> sf_limit, sf_max |-> sf_max_value,
                             uc_sf |-> RAbs(RDiv(sf_max_value, sf_limit)),
                             bm_limit |-> bm_limit, bm_max |-> bm_max_value,
                             uc_bm |-> RAbs(RDiv(bm_max_value, bm_limit))]])

\* lines 69-95
LsChecks(ship, x_val, wd, bd, sf, bm) ==
    LsResult(x_val, wd, bd, sf, bm, sf[MaxAbsIndex(sf)], bm[MaxAbsIndex(bm)],
             ship["ship_data.json"].longitudinal_strength.sf_max,
             ship["ship_data.json"].longitudinal_strength.bm_max)

\* lines 53-67
LsMoments(ship, x_val, wd, bd, sf) ==
    IF RIsZero(x_val[Len(x_val)]) THEN Raise("ZeroDivisionError")
    ELSE LsChecks(ship, x_val, wd, bd, sf, BendingMoment(x_val, SfVarList(x_val, sf, Len(x_val))))

\* lines 45-51: round() of a float that is not finite raises
LsShear(ship, x_val, wd, bd) ==
    IF bd[1] = <<0, 0>> THEN Raise("ValueError")
    ELSE IF ~IsFinite(bd[1]) THEN Raise("OverflowError")
    ELSE LsMoments(ship, x_val, wd, bd, ShearForce(wd, bd, Len(x_val)))

\* line 43
LsBuoyancy(ship, x_val, wd, buoyancy) ==
    IF buoyancy.kind = "raise" THEN buoyancy ELSE LsShear(ship, x_val, wd, buoyancy.value)

\* line 38
TotalDeadWeight(cargo_data, tank_data) ==
    RAdd(RSum([k \in 1..Len(cargo_data) |-> RMul(cargo_data[k].weight, cargo_data[k].length)]),
         RSum([k \in 1..Len(tank_data) |-> tank_data[k].weight]))

\* lines 35-43
LsOnWeights(ship, x_val, wd, ls_bd, draft_aft, cargo_data, tank_data, trim) ==
    LsBuoyancy(ship, x_val, wd,
               get_buoyancy_distribution(x_val, wd, ls_bd.x, ls_bd.y,
                                         TotalDeadWeight(cargo_data, tank_data),
                                         ship["ship_data.json"].vessel_data.loa, draft_aft, trim))

\* lines 24-33
LsOnDistributions(ship, ls, distribution_list, draft_aft, cargo_data, tank_data, trim) ==
    LsOnWeights(ship, ls.x,
                IF distribution_list # <<>> THEN get_weight_dn(ls.x, ls.y, distribution_list) ELSE ls.y,
                get_ls_buoyancy_distribution(ship), draft_aft, cargo_data, tank_data, trim)

\* lines 20-24
LsOnTanks(ship, tanks, draft_aft, cargo_data, tank_data, trim) ==
    IF tanks.kind = "raise" THEN tanks
    ELSE LsOnDistributions(ship, get_lightship_distribution(ship),
                           tanks.value \o get_cargo_weight_distribution(cargo_data),
                           draft_aft, cargo_data, tank_data, trim)

get_ls_plot(ship, draft_aft, cargo_data, tank_data, trim) ==
    LsOnTanks(ship, get_tank_weight_distribution(ship, tank_data), draft_aft, cargo_data, tank_data, trim)

(***************************************************************************)
(* Argument domains of get_ls_plot                                         *)
(***************************************************************************)
\* the stations of the lightship distribution and the points of the
\* reference buoyancy curve
StationLists == {<<0, 10, 20, 30>>, <<-20, -10, 0>>, <<10, 20, 30>>}
BuoyancyPoints == {<<0, 10, 20, 30>>, <<-20, 30>>, <<10, 20>>}
\* a distribution over the points x: constant 0, constant 2 or a ramp
Shapes == {"zero", "constant", "ramp"}
Distribution(x, shape) ==
    [x |-> [k \in 1..Len(x) |-> R(x[k])],
     y |-> [k \in 1..Len(x) |-> IF shape = "zero" THEN R(0) ELSE IF shape = "constant" THEN R(2) ELSE R(2 * k)]]

\* vessel length and strength limits
LsShipData ==
    { [vessel_data |-> [loa |-> R(loa)], longitudinal_strength |-> [sf_max |-> R(sf_max), bm_max |-> R(100)]] :
        loa \in {0, 30}, sf_max \in {0, 100} }

TankExtentData == << <<"T1", [aft_extent |-> R(5), forward_extent |-> R(25)]>> >>

LsShips ==
    { ("lightship_distribution.csv" :> Distribution(stations, ls_shape))
      @@ ("buoyancy_distribution.csv" :> Distribution(points, bd_shape))
      @@ ("tank_extent.json" :> TankExtentData)
      @@ ("ship_data.json" :> ship_data) :
        stations \in StationLists, ls_shape \in Shapes, points \in BuoyancyPoints,
        bd_shape \in Shapes, ship_data \in LsShipData }

\* draft aft and trim of the call
DraftsAndTrims ==
    {[draft_aft |-> R(0), trim |-> R(0)], [draft_aft |-> R(5), trim |-> R(0)],
     [draft_aft |-> R(0), trim |-> R(30)]}

CargoItems == {<<>>, <<[weight |-> R(6), length |-> R(20), lcg |-> R(15)]>>}
TankLoads ==
    {<<>>, <<[tank_name |-> "T1", weight |-> R(0)]>>, <<[tank_name |-> "T1", weight |-> R(4)]>>}

(***************************************************************************)
(* stability_api.solve_crane_get_data                                      *)
(*                                                                         *)
(* The view first stores the request's cargo selection, user_input and     *)
(* boomdata in the worksheet's row of saved_data_cargo_and_tank, then      *)
(* reads the row again and computes the crane answer from what it finds.   *)
(* Each query and each save is a database operation of its own (the view   *)
(* opens no transaction and takes no lock), so the two halves of one       *)
(* request are two steps between which another request can run.  A row is  *)
(* [user, pickle_name, datas, crane_data]; saved_entries[name] holds the   *)
(* rows with that name (name is unique, so none or one).  Of the response  *)
(* the model keeps crane_orientations and calculated_output_values; the    *)
(* vessel has a lightship weight, so the weight sums before them return.   *)
(***************************************************************************)
RequestIds == {1, 2}
User == "user"
SelectWeightHere == [name |-> "SELECT WEIGHT HERE", weight |-> 0, lcg |-> 0, tcg |-> 0, vcg |-> 0]

\* cargo.get("name")
NameOf(cargo) == IF "name" \in DOMAIN cargo THEN cargo.name ELSE None

\* lines 1945-1969: the named items but the drilling platform, then the
\* drilling_platform values of the request
NamedCargo(weight_data) == SelectSeq(weight_data, LAMBDA cargo : "name" \in DOMAIN cargo)
WithoutPlatform(cargo) == SelectSeq(cargo, LAMBDA item : item.name # "drilling platform")
CargoList(body) == WithoutPlatform(NamedCargo(body.cargo)) \o <<body.drilling_platform>>

\* lines 1938-1940
CargoNameInCrane(body) ==
    IF Falsy(body.selectedCargoInCrane) THEN "SELECT WEIGHT HERE" ELSE body.selectedCargoInCrane

\* lines 1984-1991: next(cargo for cargo in cargo_list if name matches, {})
Matching(cargo_list, name) == SelectSeq(cargo_list, LAMBDA cargo : NameOf(cargo) = name)

\* lines 1971-1999
FilteredOf(name, matching) ==
    IF name = "SELECT WEIGHT HERE" \/ matching = <<>> THEN SelectWeightHere ELSE matching[1]
FilteredCargo(body) ==
    FilteredOf(CargoNameInCrane(body), Matching(CargoList(body), CargoNameInCrane(body)))

\* objects.filter(user=..., name=..., pickle_name=...).first(), as a list
\* of no row or one row
SavedEntry(rows, body) ==
    SelectSeq(rows[body.name],
              LAMBDA row : row.user = User /\ row.pickle_name = body.pickle_name)

\* lines 2020-2056: the row of the worksheet after the request's save
Stored(row, body) ==
    [row EXCEPT !.datas = [key \in DOMAIN row.datas \cup {"cargo", "user_input", "selectedCargoInCrane", "boomdata"} |->
                              CASE key = "cargo" -> body.cargo
                                [] key = "user_input" -> body.user_input
                                [] key = "selectedCargoInCrane" -> body.selectedCargoInCrane
                                [] key = "boomdata" -> body.boomdata
                                [] OTHER -> row.datas[key]],
                !.crane_data = IF FilteredCargo(body) # row.crane_data
                               THEN FilteredCargo(body) ELSE row.crane_data]

\* lines 2060-2067: the new row carries neither user nor pickle_name
NewEntry(body) ==
    [user |-> None, pickle_name |-> "",
     datas |-> [key \in {"cargo", "user_input", "selectedCargoInCrane", "boomdata"} |->
                   CASE key = "cargo" -> body.cargo
                     [] key = "user_input" -> body.user_input
                     [] key = "selectedCargoInCrane" -> body.selectedCargoInCrane
                     [] OTHER -> body.boomdata],
     crane_data |-> FilteredCargo(body)]

\* lines 2203-2210 and 2221-2223: what the second query selects
UserInputOf(saved_entry2, body) ==
    IF saved_entry2 # <<>> /\ "user_input" \in DOMAIN saved_entry2[1].datas
    THEN saved_entry2[1].datas["user_input"] ELSE body.user_input
BoomDataOf(saved_entry2, body) ==
    IF saved_entry2 # <<>> /\ "boomdata" \in DOMAIN saved_entry2[1].datas
    THEN saved_entry2[1].datas["boomdata"] ELSE body.boomdata
CraneDataToFront(saved_entry2, body) ==
    IF saved_entry2 # <<>> THEN saved_entry2[1].crane_data ELSE FilteredCargo(body)

\* lines 2239-2246
CraneCargo(crane_data_to_front) ==
    << <<"crane_1", <<crane_data_to_front.weight, crane_data_to_front.lcg,
                      crane_data_to_front.tcg, crane_data_to_front.vcg>> >> >>

\* lines 2251-2270: the answer without a selected cargo; the table is the
\* first ".csv" of the vessel (lines 2368-2374)
NoLift(crane_tables) ==
    Return([crane_orientations |->
                << <<"crane_1", <<[slew_angle |-> 0, boom_angle |-> 0,
                                   required_outreach |-> 0, weight |-> 0,
                                   required_swl_table |-> FirstCsvInBooms(crane_tables)]>> >> >>,
            calculated_output_values |->
                [SHLbe |-> R(0), SHLub |-> R(0), SWLreq |-> R(0), SWL |-> R(0),
                 SWLcorr |-> R(0), UCl |-> R(0), Rm |-> R(0), UCr |-> R(0)]])

\* lines 2247-2289
CraneAnswer(ship, crane_data_to_front, user_input, boomdata) ==
    IF crane_data_to_front.name = "SELECT WEIGHT HERE"
    THEN NoLift(ship.crane_tables)
    ELSE calculate_crane_and_swl(ship.crane_tables, ship.crane_data,
                                 CraneCargo(crane_data_to_front), user_input, boomdata)

\* lines 2199-2289 on the row found by the second query
CraneResponse(ship, saved_entry2, body) ==
    CraneAnswer(ship, CraneDataToFront(saved_entry2, body),
                UserInputOf(saved_entry2, body), BoomDataOf(saved_entry2, body))

(***************************************************************************)
(* The vessel, the stored worksheets and the request bodies                *)
(***************************************************************************)
Vessel ==
    [crane_tables |-> << <<"Main Boom", << <<"Lift", << <<CsvKey("10"), CurveA>>,
                                                        <<CsvKey("20"), CurveB>> >> >> >> >> >>,
     crane_data |-> << <<"crane_1", [pedestal_base_point |-> PedestalBase,
                                     boom_tip_point |-> [keyed |-> TRUE,
                                                         tips |-> << <<"Main", <<40, 0, 30>> >> >>]]>> >>]

WorksheetCargo ==
    << [name |-> "pipe", weight |-> 40, lcg |-> 10, tcg |-> 0, vcg |-> 0],
       [name |-> "module", weight |-> 120, lcg |-> 15, tcg |-> 20, vcg |-> 0],
       [name |-> "drilling platform", weight |-> 60, lcg |-> 45, tcg |-> 0, vcg |-> 0] >>

\* worksheet "saved" has a row of the user and the vessel, "fresh" has none
StoredWorksheets ==
    [name \in {"saved", "fresh"} |->
        IF name = "saved"
        THEN <<[user |-> User, pickle_name |-> "vessel",
                datas |-> [key \in {"cargo"} |-> WorksheetCargo],
                crane_data |-> SelectWeightHere]>>
        ELSE <<>>]

RequestBodies ==
    [name : {"saved", "fresh"}, pickle_name : {"vessel"}, cargo : {WorksheetCargo},
     drilling_platform : {[weight |-> 60, lcg |-> 45, tcg |-> 0, vcg |-> 0]},
     selectedCargoInCrane : {"", "pipe", "module"},
     user_input : {f \in CraneFactors : f.DAFincl = 1},
     boomdata : {[boom |-> "Main Boom", operation |-> "Lift", height |-> h] : h \in {"10", "20"}}]

NoRequest == [pc |-> "idle"]

(***************************************************************************)
(* stability_api.solve                                                     *)
(*                                                                         *)
(* The view stores the request in the worksheet's row, sums the weights,   *)
(* calls optimize_trim and get_gz_curve and hands their results to         *)
(* get_criteria_data and get_ls_plot.  The model evaluates the weight      *)
(* sums, optimize_trim and get_gz_curve; of the last two calls it keeps    *)
(* the arguments they are given (criteria_call and ls_call).  Angles are   *)
(* exact only where degrees(atan(q)) is rational, that is for q = 0, 1 and *)
(* -1, so the requests of the model are those whose trim and heel are 0 or *)
(* 45 degrees either way.                                                  *)
(***************************************************************************)
\* lines 63-83
get_lightship_weight(ship) ==
    [weight |-> R(ship["ship_data.json"].lightship.lightship_weight),
     lcg |-> R(ship["ship_data.json"].lightship.lightship_lcg),
     tcg |-> R(ship["ship_data.json"].lightship.lightship_tcg),
     vcg |-> R(ship["ship_data.json"].lightship.lightship_vcg)]

\* lines 1020-1023: platform_data joins the cargo; items without a weight
\* are dropped
ValidWeightData(weight_data, platform_data) ==
    SelectSeq(Append(weight_data, platform_data), LAMBDA item : "weight" \in DOMAIN item)

\* lines 1056-1070 and 1079-1093: two weights and their centres combined,
\* the centres 0 when the sum is 0
Combined(a, b) ==
    LET weight == RAdd(a.weight, b.weight)
    IN  IF ~RIsZero(weight)
        THEN [weight |-> weight,
              lcg |-> RDiv(RAdd(RMul(a.weight, a.lcg), RMul(b.weight, b.lcg)), weight),
              tcg |-> RDiv(RAdd(RMul(a.weight, a.tcg), RMul(b.weight, b.tcg)), weight),
              vcg |-> RDiv(RAdd(RMul(a.weight, a.vcg), RMul(b.weight, b.vcg)), weight)]
        ELSE [weight |-> weight, lcg |-> R(0), tcg |-> R(0), vcg |-> R(0)]

TankWeight(tank) ==
    [weight |-> tank.total[1], lcg |-> tank.total[2], tcg |-> tank.total[3], vcg |-> tank.total[4]]

\* lines 1017-1098: total weight and centre of gravity
TotalWeight(ship, tank, fixed) ==
    Combined(Combined(TankWeight(tank), fixed), get_lightship_weight(ship))

\* lines 1132-1152: the arguments of get_criteria_data and of get_ls_plot
SolveCalls(ship, total, floating_status, gz_curve_data, criteria_limits, tank_vals, weight_data) ==
    [floating_status |-> floating_status,
     gz_curve |-> gz_curve_data,
     criteria_call |->
        [gz_curve |-> gz_curve_data,
         length |-> R(ship["ship_data.json"].vessel_data.loa),
         depth |-> R(ship["ship_data.json"].vessel_data.depth),
         draft |-> Lookup(floating_status, "draft"),
         breadth |-> R(ship["ship_data.json"].vessel_data.breadth),
         total_weight |-> total.weight,
         gmt_corr |-> RSub(Lookup(floating_status, "kmt"), total.vcg),
         max_draft |-> RAdd(Lookup(floating_status, "draft"), Lookup(floating_status, "trim")),
         criteria_limits |-> criteria_limits],
     ls_call |->
        [draft_aft |-> RAdd(Lookup(floating_status, "draft"), Lookup(floating_status, "draft_aft")),
         tank_data |-> tank_vals,
         cargo_data |-> weight_data,
         trim |-> Lookup(floating_status, "trim")]]

\* lines 1122-1126: the GZ curve at floating_status["trim"]; get_criteria_data
\* fits a cubic through the curve and refuses fewer than four samples
SolveGz(ship, total, floating_status, criteria_limits, tank_vals, weight_data, gz_curve_data) ==
    IF gz_curve_data.kind = "raise" THEN gz_curve_data
    ELSE IF Len(gz_curve_data.value) < 4 THEN Raise("ValueError")
    ELSE Return(SolveCalls(ship, total, floating_status, gz_curve_data.value, criteria_limits,
                           tank_vals, weight_data))

SolveFloating(ship, total, floating_status, criteria_limits, tank_vals, weight_data) ==
    IF floating_status.kind = "raise" THEN floating_status
    ELSE SolveGz(ship, total, floating_status.value, criteria_limits, tank_vals, weight_data,
                 get_gz_curve(ship, total.weight, total.vcg, total.tcg,
                              Lookup(floating_status.value, "trim")))

\* line 1109
VcgCorr(total, tank_fsm) == RSub(total.vcg, RDiv(tank_fsm, total.weight))

\* lines 1104-1121
SolveOnTotal(ship, total, tank, criteria_limits, weight_data) ==
    IF RIsZero(total.weight) THEN Raise("ZeroDivisionError")
    ELSE SolveFloating(ship, total,
                       optimize_trim(ship, total.weight, total.lcg, total.tcg, total.vcg,
                                     VcgCorr(total, tank.total[5]),
                                     R(ship["ship_data.json"].vessel_data.loa)),
                       criteria_limits, tank.tank_vals, weight_data)

\* lines 1017-1029
SolveOnWeights(ship, tank, fixed, criteria_limits, weight_data) ==
    IF tank.kind = "raise" THEN tank
    ELSE SolveOnTotal(ship, TotalWeight(ship, tank.value, fixed.value), tank.value,
                      criteria_limits, weight_data)

\* lines 1009-1160
solve(ship, weight_data, tank_data, platform_data, criteria_limits) ==
    SolveOnWeights(ship, get_tank_weight(ship["Tanks"], tank_data),
                   get_fixed_weight(ValidWeightData(weight_data, platform_data)),
                   criteria_limits, Append(weight_data, platform_data))

\* lines 969-989: the worksheet's row after the request is stored in it
SolveStored(row, weight_data, tank_data, criteria_limits, platform_data) ==
    [row EXCEPT !.datas =
        [key \in DOMAIN row.datas \cup {"cargo", "tank", "criteria", "drilling_platform"} |->
            CASE key = "cargo" -> weight_data
              [] key = "tank" -> tank_data
              [] key = "criteria" -> criteria_limits
              [] key = "drilling_platform" -> platform_data
              [] OTHER -> row.datas[key]]]

\* trim and heel of the request are angles the model has exactly
AtExactAngle(q) == q \in {R(0), R(1), R(-1)}
ExactHeel(tcg, gm) == IF RIsZero(gm) THEN TRUE ELSE AtExactAngle(RDiv(tcg, gm))
ExactOnPass(hs, trim_data, total, tank_fsm, loa, trim_meter) ==
    IF AtExactAngle(RDiv(trim_meter, loa))
    THEN ExactHeel(total.tcg, RSub(Lookup(FloatingStatus(hs, trim_data, trim_meter, total.weight), "kmt"),
                                   VcgCorr(total, tank_fsm)))
    ELSE FALSE
ExactOnFirst(hs, trim_data, total, tank_fsm, loa, first) ==
    IF RIsZero(Lookup(first, "mct")) THEN TRUE
    ELSE IF RIsZero(loa) THEN TRUE
    ELSE ExactOnPass(hs, trim_data, total, tank_fsm, loa,
                     TrimMeter(total.weight, Lookup(first, "lcb"), total.lcg, Lookup(first, "mct")))
ExactAngles(ship, total, tank_fsm) ==
    IF RIsZero(total.weight) THEN TRUE
    ELSE ExactOnFirst(ship["Hydrostatics"], SortedByTrim(FileNames(ship["Hydrostatics"])), total, tank_fsm,
                      R(ship["ship_data.json"].vessel_data.loa),
                      FloatingStatus(ship["Hydrostatics"], SortedByTrim(FileNames(ship["Hydrostatics"])),
                                     R(0), total.weight))
Representable(ship, weight_data, tank_data, platform_data) ==
    IF get_tank_weight(ship["Tanks"], tank_data).kind = "raise" THEN TRUE
    ELSE ExactAngles(ship,
                     TotalWeight(ship, get_tank_weight(ship["Tanks"], tank_data).value,
                                 get_fixed_weight(ValidWeightData(weight_data, platform_data)).value),
                     get_tank_weight(ship["Tanks"], tank_data).value.total[5])

(***************************************************************************)
(* The vessels and requests of solve                                       *)
(***************************************************************************)
\* two tanks of the same weight and position, the free surface in T1 only
SolveTanks ==
    << [name |-> "T1", csv |-> TRUE,
        curve |-> [fill |-> <<0, 50, 100>>, volume |-> <<0, 10, 20>>, weight |-> <<0, 10, 20>>,
                   lcg |-> <<12, 12, 12>>, tcg |-> <<0, 0, 0>>, vcg |-> <<7, 7, 7>>,
                   fsm |-> <<0, 200, 0>>]],
       [name |-> "T2", csv |-> TRUE,
        curve |-> [fill |-> <<0, 50, 100>>, volume |-> <<0, 10, 20>>, weight |-> <<0, 10, 20>>,
                   lcg |-> <<12, 12, 12>>, tcg |-> <<0, 0, 0>>, vcg |-> <<7, 7, 7>>,
                   fsm |-> <<0, 0, 0>>]] >>

SolveFiles == <<"0.csv", "1.csv", "2.csv", "3.csv", "4.csv", "5.csv", "6.csv", "7.csv">>

SolveShips ==
    { [key \in {"Tanks", "ship_data.json", "Hydrostatics", "Cross Curves"} |->
        CASE key = "Tanks" -> SolveTanks
          [] key = "ship_data.json" ->
                [lightship |-> [lightship_weight |-> lightship, lightship_lcg |-> 12,
                                lightship_tcg |-> 0, lightship_vcg |-> 7],
                 vessel_data |-> [loa |-> loa, depth |-> 10, breadth |-> 10]]
          [] key = "Hydrostatics" -> Hydrostatics(SolveFiles, 0, 1)
          [] key = "Cross Curves" -> CrossCurves(<<"0.csv", "1.csv", "2.csv">>, layout, 0)] :
      lightship \in {0, 140}, loa \in {1, 100},
      layout \in {<<"DISPLACEMENT", "0", "90", "180", "270">>, <<"DISPLACEMENT", "0", "90", "180">>} }

SolveCargo ==
    [weight : {50, 60}, lcg : {10, 12, 14}, tcg : {0, 8}, vcg : {7, 11}]

SolveTankData == {<<>>} \cup {[name \in {n} |-> fill] : n \in {"T1", "T2"}, fill \in {50, 100}}
PlatformData == {<<>>, [weight |-> 10, lcg |-> 12, tcg |-> 0, vcg |-> 7]}

Init ==
    /\ op = "init"
    /\ args = <<>>
    /\ ret = <<>>
    /\ saved_entries = StoredWorksheets
    /\ requests = [r \in RequestIds |-> NoRequest]

GetFixedWeight ==
    /\ op = "init"
    /\ UNCHANGED <<saved_entries, requests>>
    /\ \E weight_data \in SeqsUpTo(FixedWeightItems, MaxItems) :
        /\ op' = "get_fixed_weight"
        /\ args' = [weight_data |-> weight_data]
        /\ ret' = get_fixed_weight(weight_data)

GetTankWeight ==
    /\ op = "init"
    /\ UNCHANGED <<saved_entries, requests>>
    /\ \E tanks \in ShipTanks, tank_data \in TankData :
        /\ op' = "get_tank_weight"
        /\ args' = [tanks |-> tanks, tank_data |-> tank_data]
        /\ ret' = get_tank_weight(tanks, tank_data)

NextWeights == GetFixedWeight \/ GetTankWeight

CalculateRequiredSwl ==
    /\ op = "init"
    /\ UNCHANGED <<saved_entries, requests>>
    /\ \E table \in {NoTable} \cup {Table(t) : t \in LoadCurves}, Ra \in Outreaches,
          crane_weight \in CargoWeights, f \in LiftFactors :
        /\ op' = "calculate_required_swl"
        /\ args' = [table |-> table, Ra |-> R(Ra), crane_weight |-> crane_weight, f |-> f]
        /\ ret' = calculate_required_swl(table, R(Ra), R(crane_weight), R(f.Mrigging),
                                         R(f.Mhook), R(f.WCFrigging), R(f.WCF),
                                         R(f.DAF), R(f.DAFincl), R(f.Mblock))

CalculateBoomAngle ==
    /\ op = "init"
    /\ UNCHANGED <<saved_entries, requests>>
    /\ \E boom_length \in BoomLengths, required_outreach \in Outreaches,
          Ucl \in UtilizationValues, Ucr \in UtilizationValues :
        /\ op' = "calculate_boom_angle"
        /\ args' = [boom_length |-> boom_length, required_outreach |-> required_outreach,
                    Ucl |-> Ucl, Ucr |-> Ucr]
        /\ ret' = calculate_boom_angle(R(boom_length), R(required_outreach), Ucl, Ucr)

CalculateCraneAndSwl ==
    /\ op = "init"
    /\ UNCHANGED <<saved_entries, requests>>
    /\ \E crane_tables \in ShipCraneTables, crane_data \in CraneDataSets,
          cargo_data \in CargoData, f \in CraneFactors, boomdata \in BoomData :
        /\ op' = "calculate_crane_and_swl"
        /\ args' = [crane_tables |-> crane_tables, crane_data |-> crane_data,
                    cargo_data |-> cargo_data, f |-> f, boomdata |-> boomdata]
        /\ ret' = calculate_crane_and_swl(crane_tables, crane_data, cargo_data, f, boomdata)

GetCriteriaData ==
    /\ op = "init"
    /\ UNCHANGED <<saved_entries, requests>>
    /\ \E gz_curve \in GzCurves, v \in Vessels, criteria_limits \in CriteriaLimits :
        \E x_max \in {gz_curve[1][1], gz_curve[Len(gz_curve)][1]} :
            /\ op' = "get_criteria_data"
            /\ args' = [gz_curve |-> gz_curve, vessel |-> v,
                        criteria_limits |-> criteria_limits, x_max |-> x_max]
            /\ ret' = get_criteria_data(gz_curve, R(v.length), R(v.depth), R(v.draft),
                                        R(v.breadth), R(v.total_weight), v.gmt_corr,
                                        R(v.max_draft), criteria_limits, R(x_max))

\* the heel angles an area is taken between: on a sample, between two
\* samples and beyond the last sample of every curve
StartAngles == {0, 10}
EndAngles == {0, 5, 10, 15, 20, 25, 30, 40, 50, 65}

GetPlotArea ==
    /\ op = "init"
    /\ UNCHANGED <<saved_entries, requests>>
    /\ \E gz_curve \in GzCurves, start_x \in StartAngles, end_x \in EndAngles :
        /\ op' = "get_plot_area"
        /\ args' = [x_vals |-> CurveX(gz_curve), y_vals |-> CurveY(gz_curve),
                    start_x |-> R(start_x), end_x |-> R(end_x)]
        /\ ret' = Return(get_plot_area(CurveX(gz_curve), CurveY(gz_curve),
                                       R(start_x), R(end_x)))

CalculateRangeOfStability ==
    /\ op = "init"
    /\ UNCHANGED <<saved_entries, requests>>
    /\ \E gz_curve \in SampledCurves :
        /\ op' = "calculate_range_of_stability"
        /\ args' = [gz_curve |-> gz_curve]
        /\ ret' = Return(calculate_range_of_stability(CurveX(gz_curve), CurveY(gz_curve)))

NextStability == CalculateRangeOfStability

GetGzCurve ==
    /\ op = "init"
    /\ UNCHANGED <<saved_entries, requests>>
    /\ \E ship \in CrossShips, weight \in ShipWeights, vcg \in {R(0), R(2)},
          tcg \in {R(0), R(1)}, trim \in TrimQueries :
        /\ op' = "get_gz_curve"
        /\ args' = [ship |-> ship, weight |-> weight, vcg |-> vcg, tcg |-> tcg, trim |-> trim]
        /\ ret' = get_gz_curve(ship, weight, vcg, tcg, trim)

OptimizeTrim ==
    /\ op = "init"
    /\ UNCHANGED <<saved_entries, requests>>
    /\ \E ship \in HydroShips, weight \in ShipWeights, lcg \in {R(11), R(12), R(13)},
          tcg \in {R(0), R(1)}, vcg \in {R(7)}, vcg_corr \in {R(7), R(8), R(10)},
          length \in {R(0), R(100)} :
        /\ op' = "optimize_trim"
        /\ args' = [ship |-> ship, weight |-> weight, lcg |-> lcg, tcg |-> tcg, vcg |-> vcg,
                    vcg_corr |-> vcg_corr, length |-> length]
        /\ ret' = optimize_trim(ship, weight, lcg, tcg, vcg, vcg_corr, length)

NextHydrostatics == GetGzCurve \/ OptimizeTrim

SpecHydrostatics == Init /\ [][NextHydrostatics]_vars

GetLsPlot ==
    /\ op = "init"
    /\ UNCHANGED <<saved_entries, requests>>
    /\ \E ship \in LsShips, floating \in DraftsAndTrims, cargo_data \in CargoItems,
          tank_data \in TankLoads :
        /\ op' = "get_ls_plot"
        /\ args' = [ship |-> ship, draft_aft |-> floating.draft_aft, cargo_data |-> cargo_data,
                    tank_data |-> tank_data, trim |-> floating.trim]
        /\ ret' = get_ls_plot(ship, floating.draft_aft, cargo_data, tank_data, floating.trim)

GetBuoyancyDistribution ==
    /\ op = "init"
    /\ UNCHANGED <<saved_entries, requests>>
    /\ \E stations \in StationLists, shape \in Shapes, points \in BuoyancyPoints,
          bd_shape \in Shapes, total_dead_weight \in {R(0), R(12)}, length \in {R(0), R(30)},
          floating \in DraftsAndTrims :
        /\ op' = "get_buoyancy_distribution"
        /\ args' = [x_vals |-> Distribution(stations, shape).x,
                    weight_distribution |-> Distribution(stations, shape).y,
                    ls_x_vals |-> Distribution(points, bd_shape).x,
                    ls_buoyancy_distribution |-> Distribution(points, bd_shape).y,
                    total_dead_weight |-> total_dead_weight, length |-> length,
                    draft_aft |-> floating.draft_aft, trim |-> floating.trim]
        /\ ret' = get_buoyancy_distribution(Distribution(stations, shape).x,
                                            Distribution(stations, shape).y,
                                            Distribution(points, bd_shape).x,
                                            Distribution(points, bd_shape).y,
                                            total_dead_weight, length,
                                            floating.draft_aft, floating.trim)

\* cargo and tank loads as (weight, x_min, x_max): over several stations,
\* over the whole hull, beyond both ends, between two stations, weightless
LoadExtents ==
    {<<R(6), R(5), R(25)>>, <<R(6), R(0), R(30)>>, <<R(6), R(-25), R(35)>>,
     <<R(9), R(12), R(18)>>, <<R(4), R(15), R(30)>>, <<R(0), R(5), R(25)>>,
     <<R(1), R(-7), R(-4)>>}

GetWeightDn ==
    /\ op = "init"
    /\ UNCHANGED <<saved_entries, requests>>
    /\ \E stations \in StationLists, shape \in Shapes, distribution_list \in SeqsUpTo(LoadExtents, MaxItems) :
        /\ op' = "get_weight_dn"
        /\ args' = [x_vals |-> Distribution(stations, shape).x,
                    lightship_distribution |-> Distribution(stations, shape).y,
                    distribution_list |-> distribution_list]
        /\ ret' = Return(get_weight_dn(Distribution(stations, shape).x, Distribution(stations, shape).y,
                                       distribution_list))

NextStrength == GetLsPlot \/ GetBuoyancyDistribution \/ GetWeightDn

SpecStrength == Init /\ [][NextStrength]_vars

SpecStability == Init /\ [][NextStability]_vars

NextCriteria == GetCriteriaData \/ GetPlotArea

SpecCriteria == Init /\ [][NextCriteria]_vars

NextCrane == CalculateRequiredSwl \/ CalculateBoomAngle \/ CalculateCraneAndSwl

SpecCrane == Init /\ [][NextCrane]_vars

SpecWeights == Init /\ [][NextWeights]_vars

\* a crane request arrives (lines 1921-1943)
ReceiveCraneRequest(r) ==
    /\ requests[r].pc = "idle"
    /\ \E body \in RequestBodies :
        requests' = [requests EXCEPT ![r] = [pc |-> "received", body |-> body]]
    /\ UNCHANGED <<op, args, ret, saved_entries>>

\* lines 2015-2067: the worksheet's row is updated, or a row is created when
\* the query finds none; name is unique, so a second row of that name is
\* refused and the request ends with the uncaught IntegrityError
SaveCraneRequest(r) ==
    /\ requests[r].pc = "received"
    /\ LET body == requests[r].body
           saved_entry == SavedEntry(saved_entries, body)
       IN  IF saved_entry # <<>>
           THEN /\ saved_entries' = [saved_entries EXCEPT ![body.name] = <<Stored(saved_entry[1], body)>>]
                /\ requests' = [requests EXCEPT ![r].pc = "saved"]
           ELSE IF saved_entries[body.name] # <<>>
           THEN /\ requests' = [requests EXCEPT ![r] = [pc |-> "done", body |-> body,
                                                        response |-> Raise("IntegrityError")]]
                /\ UNCHANGED saved_entries
           ELSE /\ saved_entries' = [saved_entries EXCEPT ![body.name] = <<NewEntry(body)>>]
                /\ requests' = [requests EXCEPT ![r].pc = "saved"]
    /\ UNCHANGED <<op, args, ret>>

\* lines 2075-2362: the row is read again and the response is computed
AnswerCraneRequest(r) ==
    /\ requests[r].pc = "saved"
    /\ requests' = [requests EXCEPT ![r] =
                       [pc |-> "done", body |-> requests[r].body,
                        response |-> CraneResponse(Vessel, SavedEntry(saved_entries, requests[r].body),
                                                   requests[r].body)]]
    /\ UNCHANGED <<op, args, ret, saved_entries>>

NextRequests ==
    \E r \in RequestIds : ReceiveCraneRequest(r) \/ SaveCraneRequest(r) \/ AnswerCraneRequest(r)

SpecRequests == Init /\ [][NextRequests]_vars

\* lines 899-1160 for the stored worksheet of the user
Solve ==
    /\ op = "init"
    /\ \E ship \in SolveShips, weight_data \in SeqsUpTo(SolveCargo, 1), tank_data \in SolveTankData,
          platform_data \in PlatformData, criteria_limits \in {<<>>, << <<"cr_8", [required |-> R(20)]>> >>} :
        /\ Representable(ship, weight_data, tank_data, platform_data)
        /\ op' = "solve"
        /\ args' = [ship |-> ship, name |-> "saved", pickle_name |-> "vessel",
                    weight_data |-> weight_data, tank_data |-> tank_data,
                    platform_data |-> platform_data, criteria_limits |-> criteria_limits]
        /\ ret' = solve(ship, weight_data, tank_data, platform_data, criteria_limits)
        /\ saved_entries' = [saved_entries EXCEPT !["saved"] =
                                <<SolveStored(saved_entries["saved"][1], weight_data, tank_data,
                                              criteria_limits, platform_data)>>]
    /\ UNCHANGED requests

NextSolve == Solve

SpecSolve == Init /\ [][NextSolve]_vars

Next == NextWeights \/ NextCrane \/ NextCriteria \/ NextStability \/ NextHydrostatics \/ NextStrength \/ NextRequests \/ NextSolve

Spec == Init /\ [][Next]_vars

(***************************************************************************)
(* Claims about the weight aggregation                                     *)
(***************************************************************************)
WeightSum(weight_data) == FixedWeightSums(weight_data).weight

\* C1: whenever the fixed weights sum to 0 (empty list, all-zero weights,
\* weights of opposite sign that cancel) get_fixed_weight returns
\* LCG = TCG = VCG = 0, and get_tank_weight returns (0, 0, 0, 0, 0) whenever
\* the interpolated tank weights sum to 0.
C1_ZeroWeightGivesZeroCG ==
    /\ (op = "get_fixed_weight" /\ WeightSum(args.weight_data) = 0)
          => /\ ret.kind = "return"
             /\ ret.value.lcg = R(0)
             /\ ret.value.tcg = R(0)
             /\ ret.value.vcg = R(0)
    /\ (op = "get_tank_weight" /\ ret.kind = "return"
          /\ RIsZero(RSum([k \in 1..Len(ret.value.tank_vals) |->
                              ret.value.tank_vals[k].weight])))
          => ret.value.total = ZeroTotal

(***************************************************************************)
(* Claims about the crane routines                                         *)
(***************************************************************************)
IsText(r, t) == r.kind = "return" /\ r.value.variant = "text" /\ r.value.text = t
IsOverload(r) ==
    r.kind = "return" /\ r.value.variant = "text"
    /\ r.value.text \in {BeyondBoth, BeyondCapacity, BeyondRadius}
Over(u) == u[1] > u[2]
AtOne(u) == u[1] = u[2]

\* C2: calculate_boom_angle applies the overload states in fixed
\* precedence: UCl > 1 and UCr > 1 gives the "capacity and max radius" text,
\* otherwise UCl > 1 gives "beyond crane capacity", otherwise UCr > 1 gives
\* "beyond max radius"; the text replaces any angle and comes before the
\* minimum-outreach check (and before the division by the boom length); a
\* utilization of exactly 1 is not an overload of that kind.
C2_OverloadPrecedence ==
    op = "calculate_boom_angle" =>
        /\ (Over(args.Ucl) /\ Over(args.Ucr)) => IsText(ret, BeyondBoth)
        /\ (Over(args.Ucl) /\ ~Over(args.Ucr)) => IsText(ret, BeyondCapacity)
        /\ (~Over(args.Ucl) /\ Over(args.Ucr)) => IsText(ret, BeyondRadius)
        /\ (~Over(args.Ucl) /\ ~Over(args.Ucr)) => ~IsOverload(ret)
        /\ AtOne(args.Ucl) => ~IsText(ret, BeyondCapacity) /\ ~IsText(ret, BeyondBoth)
        /\ AtOne(args.Ucr) => ~IsText(ret, BeyondRadius) /\ ~IsText(ret, BeyondBoth)

\* UCl = 1.2 and UCr = 1.3 at outreach 0, where the angle alone would have
\* given "inside minimum outreach"
C2_Witness ==
    /\ op = "calculate_boom_angle"
    /\ args.Ucl = Rat(6, 5) /\ args.Ucr = Rat(13, 10)
    /\ args.required_outreach = 0 /\ args.boom_length = 40
    /\ IsText(ret, BeyondBoth)

\* the rows of a load curve argument that is a non-empty table
HasRows(t) == t # NoTable /\ t[1] # <<>>
MinRadius(rows) == MinInt({rows[k][1] : k \in 1..Len(rows)})
MaxRadius(rows) == MaxInt({rows[k][1] : k \in 1..Len(rows)})
\* q (a rational) is the value at x (an integer) of the line through two rows
OnLine(q, x, lo, hi) ==
    q[1] * (hi[1] - lo[1]) = q[2] * (lo[2] * (hi[1] - lo[1]) + (x - lo[1]) * (hi[2] - lo[2]))
Outreach == args.Ra[1]

SwlTabulatedOrInterpolated(rows) ==
    IF \E k \in 1..Len(rows) : rows[k][1] = Outreach
    THEN \E k \in 1..Len(rows) : rows[k][1] = Outreach /\ ret.value.SWL = R(rows[k][2])
    ELSE \E k \in 1..(Len(rows) - 1) :
            /\ rows[k][1] < Outreach /\ Outreach < rows[k + 1][1]
            /\ OnLine(ret.value.SWL, Outreach, rows[k], rows[k + 1])

InRangeCall ==
    /\ op = "calculate_required_swl" /\ ret.kind = "return"
    /\ HasRows(args.table) /\ IsAscending(args.table[1])
    /\ MinRadius(args.table[1]) <= Outreach /\ Outreach <= MaxRadius(args.table[1])

\* C3 as claimed: for a table sorted ascending by radius and
\* min radius <= Ra <= max radius, SWL is the tabulated SWL when Ra is a
\* tabulated radius and else the linear interpolation between the two
\* adjacent rows that bracket Ra.
C3_Original == InRangeCall => SwlTabulatedOrInterpolated(args.table[1])

\* C3 amended: the same for every Ra # 0 (Ra = 25 on
\* [(10,100),(20,80),(30,50)] gives 65); at Ra = 0 the SWL is 0 whatever
\* the table holds.
C3_SwlInRange ==
    /\ (InRangeCall /\ Outreach # 0) => SwlTabulatedOrInterpolated(args.table[1])
    /\ (InRangeCall /\ Outreach = 0) => ret.value.SWL = R(0)
    /\ (InRangeCall /\ Outreach = 25 /\ args.table[1] = CurveA) => ret.value.SWL = R(65)

C3_Witness ==
    /\ InRangeCall /\ args.table[1] = CurveA /\ Outreach = 25
    /\ ret.value.SWL = R(65)

OutOfRangeCall ==
    /\ op = "calculate_required_swl" /\ ret.kind = "return"
    /\ HasRows(args.table) /\ IsAscending(args.table[1])

\* C4 as claimed: every required outreach Ra >= 0 below the
\* smallest tabulated radius (Ra = 0 included) yields the SWL of the first
\* row, every one above the largest radius the SWL of the last row.
C4_Original ==
    OutOfRangeCall =>
        /\ (Outreach >= 0 /\ Outreach < MinRadius(args.table[1]))
              => ret.value.SWL = R(args.table[1][1][2])
        /\ Outreach > MaxRadius(args.table[1])
              => ret.value.SWL = R(args.table[1][Len(args.table[1])][2])

\* C4 amended: every Ra > 0 below the smallest tabulated radius
\* yields the first row's SWL and every Ra above the largest the last row's;
\* Ra = 0 yields SWL = 0.
C4_EdgeClamp ==
    OutOfRangeCall =>
        /\ (Outreach > 0 /\ Outreach < MinRadius(args.table[1]))
              => ret.value.SWL = R(args.table[1][1][2])
        /\ (Outreach > 0 /\ Outreach > MaxRadius(args.table[1]))
              => ret.value.SWL = R(args.table[1][Len(args.table[1])][2])
        /\ Outreach = 0 => ret.value.SWL = R(0)

C4_Witness ==
    /\ OutOfRangeCall /\ args.table[1] = CurveA /\ Outreach = 5
    /\ ret.value.SWL = R(100)

Selectors == {"boom", "operation", "height"}
AllSelected(boomdata) == \A k \in Selectors : ~Falsy(Get(boomdata, k))
\* a lift by crane_1 of cargo away from the pedestal, the boom tip a plain
\* point ahead of the pedestal and the included amplification factor not 0
PlainLift ==
    /\ op = "calculate_crane_and_swl"
    /\ <<Lookup(args.cargo_data, "crane_1")[2], Lookup(args.cargo_data, "crane_1")[3]>>
           # <<PedestalBase[1], PedestalBase[2]>>
    /\ "crane_1" \in Keys(args.crane_data)
    /\ ~Lookup(args.crane_data, "crane_1").boom_tip_point.keyed
    /\ Lookup(args.crane_data, "crane_1").boom_tip_point.tip[1] > PedestalBase[1]
    /\ args.f.DAFincl # 0
    /\ FirstCsvInBooms(args.crane_tables) # NoTable
TableUsed == Lookup(ret.value.crane_orientations, "crane_1")[1].required_swl_table

\* C5: when boom, operation and height are all supplied but no
\* table exists under that key, the crane calculation resolves the table
\* through the fallback and returns a fully populated result, not an error.
C5_MissingTableFallsBack ==
    ( /\ PlainLift
      /\ AllSelected(args.boomdata)
      /\ SpecificSwlTable(args.crane_tables, args.boomdata.boom, args.boomdata.operation,
                          args.boomdata.height) = NoTable )
    => /\ ret.kind = "return"
       /\ Table(TableUsed) = FirstCsvInBooms(args.crane_tables)

\* C6: when any of boom, operation, height is missing or empty in
\* the boom selection, the crane calculation uses the first '.csv' table of
\* the nested traversal and completes with it.
C6_MissingSelectorUsesFirstCsv ==
    (PlainLift /\ ~AllSelected(args.boomdata))
    => /\ ret.kind = "return"
       /\ Table(TableUsed) = FirstCsvInBooms(args.crane_tables)

\* C7: calculate_required_swl never divides by zero for non-negative
\* inputs and a non-empty table: UCl = 0 when SWLcorr = 0, UCr = 0 when
\* Rm = 0, SWLreq = SHLub when DAFincl = 0 and SWLcorr = SWL when DAF = 0.
C7_NoDivisionByZero ==
    (op = "calculate_required_swl" /\ HasRows(args.table))
    => /\ ret.kind = "return"
       /\ RIsZero(ret.value.SWLcorr) => ret.value.UCl = R(0)
       /\ RIsZero(ret.value.Rm) => ret.value.UCr = R(0)
       /\ args.f.DAFincl = 0 => ret.value.SWLreq = ret.value.SHLub
       /\ args.f.DAF = 0 => ret.value.SWLcorr = ret.value.SWL

\* C8: for every boom_length, required_outreach >= 0, UCl and UCr
\* calculate_boom_angle returns one of the three overload texts, the
\* "inside minimum outreach" text or a numeric angle, and never faults; a
\* numeric angle is acos(required_outreach / boom_length) and lies in [0, 75].
C8_BoomAngleTotal ==
    (op = "calculate_boom_angle" /\ args.required_outreach >= 0)
    => /\ ret.kind = "return"
       /\ ret.value.variant \in {"text", "angle"}
       /\ ret.value.variant = "text"
             => ret.value.text \in {BeyondBoth, BeyondCapacity, BeyondRadius, InsideMinimum}
       /\ ret.value.variant = "angle"
             => /\ ret.value.acos_deg[1] * args.boom_length
                      = ret.value.acos_deg[2] * args.required_outreach
                /\ RGe(ret.value.acos_deg, R(0)) /\ RLe(ret.value.acos_deg, R(1))
                /\ ~AcosDegAbove75(ret.value.acos_deg)

(***************************************************************************)
(* Claims about the stability criteria                                     *)
(***************************************************************************)
Criterion(k) == Lookup(ret.value, k)
\* a >= b and a <= b on floats given as <<n, d>>, d = 0 for nan
AtLeast(a, b) == a[2] # 0 /\ b[2] # 0 /\ a[1] * b[2] >= b[1] * a[2]
AtMost(a, b) == a[2] # 0 /\ b[2] # 0 /\ a[1] * b[2] <= b[1] * a[2]
CriteriaReturned == op = "get_criteria_data" /\ ret.kind = "return"

\* C9: whenever get_criteria_data returns, the result has exactly the nine
\* keys cr_1 ... cr_9, every status is PASS or FAIL, status is PASS iff
\* attained >= required for cr_1..cr_7 and cr_9, and PASS iff
\* attained <= required for cr_8.
C9_CriteriaStatus ==
    CriteriaReturned =>
        /\ Len(ret.value) = 9
        /\ Keys(ret.value) = CriteriaIds
        /\ \A k \in CriteriaIds :
              /\ Criterion(k).status \in {"PASS", "FAIL"}
              /\ Criterion(k).status = "PASS"
                    <=> IF k = "cr_8"
                        THEN AtMost(Criterion(k).attained, Criterion(k).required)
                        ELSE AtLeast(Criterion(k).attained, Criterion(k).required)

\* a result where cr_8 passes with attained strictly below required, cr_7
\* fails and cr_4 fails on a nan
C9_Witness ==
    /\ CriteriaReturned
    /\ Criterion("cr_8").status = "PASS"
    /\ ~AtLeast(Criterion("cr_8").attained, Criterion("cr_8").required)
    /\ Criterion("cr_7").status = "FAIL"
    /\ Criterion("cr_4").attained = NaN /\ Criterion("cr_4").status = "FAIL"

\* the built-in required value of criterion k for the recorded call
BuiltInRequired(k) ==
    CASE k = "cr_1" -> <<11, 200>>
      [] k = "cr_2" -> <<9, 100>>
      [] k = "cr_3" -> <<3, 100>>
      [] k = "cr_4" -> <<1, 5>>
      [] k = "cr_5" -> <<20, 1>>
      [] k = "cr_6" -> <<3, 20>>
      [] k = "cr_7" -> <<36, 1>>
      [] k = "cr_8" ->
            get_max_wind_load(R(args.vessel.length), R(args.vessel.depth),
                              R(args.vessel.draft), R(args.vessel.breadth), R(540),
                              R(args.vessel.total_weight), args.vessel.gmt_corr,
                              R(0), R(args.vessel.max_draft)).value.maximum_angle_of_heel
      [] k = "cr_9" ->
            Round(RMul(Rat(14, 10),
                       AreaUnderWindageArmCurve(
                           WindageArm(R(args.vessel.length), R(args.vessel.depth),
                                      R(args.vessel.draft), R(args.vessel.total_weight)),
                           calculate_range_of_stability(CurveX(args.gz_curve),
                                                        CurveY(args.gz_curve))
                               .range_of_stability)), 2)

\* the recorded call repeated with criteria_limits as given
CriteriaWith(criteria_limits) ==
    get_criteria_data(args.gz_curve, R(args.vessel.length), R(args.vessel.depth),
                      R(args.vessel.draft), R(args.vessel.breadth),
                      R(args.vessel.total_weight), args.vessel.gmt_corr,
                      R(args.vessel.max_draft), criteria_limits, R(args.x_max))
Without(criteria_limits, k) == SelectSeq(criteria_limits, LAMBDA p : p[1] # k)
SameElsewhere(result, base, k) ==
    /\ base.kind = "return"
    /\ \A j \in CriteriaIds :
          /\ Lookup(result, j).attained = Lookup(base.value, j).attained
          /\ j # k => /\ Lookup(result, j).required = Lookup(base.value, j).required
                      /\ Lookup(result, j).status = Lookup(base.value, j).status

\* C10: for each criterion k, required is criteria_limits[k].required when k
\* is in criteria_limits and the built-in value otherwise (0.055, 0.09,
\* 0.03, 0.20, 20, 0.15, 36 for cr_1..cr_7, the computed value for cr_8 and
\* cr_9); compared with the same call without the limit for k, every
\* attained value and the required and status of every other criterion are
\* the same.
C10_RequiredOverride ==
    CriteriaReturned =>
        \A k \in CriteriaIds :
            IF k \in Keys(args.criteria_limits)
            THEN /\ Criterion(k).required = Lookup(args.criteria_limits, k).required
                 /\ SameElsewhere(ret.value, CriteriaWith(Without(args.criteria_limits, k)), k)
            ELSE Criterion(k).required = BuiltInRequired(k)

\* cr_1 overridden to 0.01 passes where the built-in 0.055 fails, the other
\* criteria keeping their built-in limits
C10_Witness ==
    /\ CriteriaReturned
    /\ Keys(args.criteria_limits) = {"cr_1"}
    /\ Criterion("cr_1").required = <<1, 100>> /\ Criterion("cr_1").status = "PASS"
    /\ Lookup(CriteriaWith(<<>>).value, "cr_1").status = "FAIL"
    /\ Criterion("cr_2").required = <<9, 100>>

\* C11: cr_3, described as the area from 30 to 40 degrees, is computed over
\* 0 to 40 degrees: on every GZ curve its attained value equals that of
\* cr_2, so the two can differ only through their required limits.
C11_Cr3EqualsCr2 ==
    CriteriaReturned =>
        /\ Criterion("cr_3").attained = Criterion("cr_2").attained
        /\ Criterion("cr_3").required = Criterion("cr_2").required
              => Criterion("cr_3").status = Criterion("cr_2").status

\* a curve sampled to 40 degrees: both areas are 0.06, cr_2 fails on 0.09
\* and cr_3 passes on 0.03
C11_Witness ==
    /\ CriteriaReturned
    /\ Criterion("cr_2").attained = <<3, 50>> /\ Criterion("cr_3").attained = <<3, 50>>
    /\ Criterion("cr_2").status = "FAIL" /\ Criterion("cr_3").status = "PASS"

\* the GZ curve {0: 0, 10: 0.1, 20: 0.18, 30: 0.2}
ExampleCurve == << <<0, <<0, 1>> >>, <<10, <<1, 10>> >>, <<20, <<9, 50>> >>, <<30, <<1, 5>> >> >>
ExampleCall ==
    /\ CriteriaReturned
    /\ args.gz_curve = ExampleCurve
    /\ "cr_1" \notin Keys(args.criteria_limits)

\* C12 as claimed: cr_1 on the example curve with required = 0.055 has an
\* attained value of about 0.025 m rad and status FAIL.
C12_Original ==
    ExampleCall =>
        /\ Criterion("cr_1").required = <<11, 200>>
        /\ AtLeast(Criterion("cr_1").attained, <<2, 100>>)
        /\ AtMost(Criterion("cr_1").attained, <<3, 100>>)
        /\ Criterion("cr_1").status = "FAIL"

\* C12 amended: cr_1 on the example curve with required = 0.055 has the
\* attained value 0.0, which is the trapezoidal area 3.8 deg m times
\* (pi/180)^2, about 0.0012, to two decimals, and status FAIL.
C12_ExampleArea ==
    ExampleCall =>
        /\ Criterion("cr_1").required = <<11, 200>>
        /\ Criterion("cr_1").attained = <<0, 1>>
        /\ Criterion("cr_1").status = "FAIL"

C12_Witness ==
    /\ ExampleCall
    /\ args.criteria_limits = <<>>
    /\ Criterion("cr_1").attained = <<0, 1>> /\ Criterion("cr_1").status = "FAIL"

(***************************************************************************)
(* Claims about the range of stability                                     *)
(***************************************************************************)
RangeCall == op = "calculate_range_of_stability"
Lever(k) == args.gz_curve[k][2]
HeelAngle(k) == R(args.gz_curve[k][1])
Samples == 1..Len(args.gz_curve)
\* the zero of the straight line from sample k to sample k + 1
LineZero(k) ==
    RSub(HeelAngle(k),
         RDiv(RMul(Lever(k), RSub(HeelAngle(k + 1), HeelAngle(k))),
              RSub(Lever(k + 1), Lever(k))))
\* the curve is non-negative up to sample k and negative after it, and is
\* 0 at no two neighbouring samples
NegativeAfter(k) ==
    /\ k \in Samples /\ k < Len(args.gz_curve)
    /\ \A j \in Samples : IF j <= k THEN RGe(Lever(j), R(0)) ELSE RLt(Lever(j), R(0))
    /\ \A j \in Samples : (j < k /\ RIsZero(Lever(j))) => ~RIsZero(Lever(j + 1))
    /\ \A j \in Samples : (1 < j /\ j < k) => RGt(Lever(j), R(0))
CrossingAfter(k) == IF RIsZero(Lever(k)) THEN HeelAngle(k) ELSE LineZero(k)

\* C13: for a GZ curve on an ascending grid from 0 degrees that is
\* non-negative at the first angle and goes negative exactly once, the
\* crossing lying between two samples or on a sampled angle,
\* calculate_range_of_stability returns angle_of_loll = 0 and a range that
\* ends at the crossing angle.
C13_RangeEndsAtCrossing ==
    RangeCall =>
        \A k \in Samples :
            NegativeAfter(k) => /\ ret.value.angle_of_loll = R(0)
                                /\ ret.value.range_of_stability = CrossingAfter(k)

\* the angles at which the linearly interpolated curve is 0, in ascending
\* order: zero samples and the zeros inside intervals with a sign change
RECURSIVE ZerosFrom(_)
ZerosFrom(k) ==
    IF k > Len(args.gz_curve) THEN <<>>
    ELSE (IF RIsZero(Lever(k)) THEN <<HeelAngle(k)>> ELSE <<>>)
         \o (IF k < Len(args.gz_curve) /\ RLt(RMul(Lever(k), Lever(k + 1)), R(0))
             THEN <<LineZero(k)>> ELSE <<>>)
         \o ZerosFrom(k + 1)
LastAngle == HeelAngle(Len(args.gz_curve))
SecondIntercept(zeros) == IF Len(zeros) > 1 THEN zeros[2] ELSE LastAngle

\* C14: for a GZ curve negative at the first angle and positive at some
\* angle, calculate_range_of_stability returns angle_of_loll = the first
\* zero of the linearly interpolated curve and range = second intercept -
\* angle_of_loll, the second intercept being the second zero or else the
\* last sampled angle; for a curve non-positive at every angle the range
\* is 0.
C14_LollCase ==
    RangeCall =>
        /\ (RLt(Lever(1), R(0)) /\ \E j \in Samples : RGt(Lever(j), R(0)))
              => /\ ret.value.angle_of_loll = ZerosFrom(1)[1]
                 /\ ret.value.range_of_stability
                       = RSub(SecondIntercept(ZerosFrom(1)), ZerosFrom(1)[1])
        /\ (\A j \in Samples : RLe(Lever(j), R(0))) => ret.value.range_of_stability = R(0)

(***************************************************************************)
(* Claims about get_gz_curve and optimize_trim                             *)
(***************************************************************************)
GzReturned == op = "get_gz_curve" /\ ret.kind = "return"
TrimReturned == op = "optimize_trim" /\ ret.kind = "return"

\* the axes of the cross-curve grid of the call
KnTrimAxis == TrimVals(SortedByTrim(FileNames(args.ship["Cross Curves"])))
KnWeightAxis == Lookup(Lookup(args.ship["Cross Curves"], "0.csv"), "DISPLACEMENT")
\* the trim axis of the hydrostatic grids of the call and the weight axis
\* of the grid of the i-th parameter
HsTrimData == SortedByTrim(FileNames(args.ship["Hydrostatics"]))
HsTrimAxis == TrimVals(HsTrimData)
HsWeightAxis(i) == WeightData(args.ship["Hydrostatics"], HsTrimData)[i]

Outside(grid, v) == RLt(v, grid[1]) \/ RGt(v, grid[Len(grid)])
\* for v outside the grid: the bound nearest to v and the grid point next to it
Bound(grid, v) == IF RLt(v, grid[1]) THEN grid[1] ELSE grid[Len(grid)]
Inner(grid, v) == IF RLt(v, grid[1]) THEN grid[2] ELSE grid[Len(grid) - 1]
Clamped(grid, v) == IF Outside(grid, v) THEN Bound(grid, v) ELSE v
\* the line through (b, fb) and (n, fn) at v
OnLineThrough(b, fb, n, fn, v) == RAdd(fb, RMul(RSub(v, b), RDiv(RSub(fb, fn), RSub(b, n))))

\* the GZ curve the routine gives for the ship and centre of gravity of
\* the call at another (trim, weight)
GzAt(trim, weight) == get_gz_curve(args.ship, weight, args.vcg, args.tcg, trim).value
\* the hydrostatic values of the call's tables at another (trim, weight)
StatusAt(trim, weight) == FloatingStatus(args.ship["Hydrostatics"], HsTrimData, trim, weight)
\* trim_meter of a returned floating status
TrimMeterOf(status) == RMul(R(2), RSub(Lookup(status, "draft_aft"), Lookup(status, "draft")))

GzLinearInTrim(b, n) ==
    \A h \in 1..Len(ret.value) :
        ret.value[h][2] = OnLineThrough(b, GzAt(b, args.weight)[h][2], n, GzAt(n, args.weight)[h][2], args.trim)
GzLinearInWeight(b, n) ==
    \A h \in 1..Len(ret.value) :
        ret.value[h][2] = OnLineThrough(b, GzAt(args.trim, b)[h][2], n, GzAt(args.trim, n)[h][2], args.weight)
StatusLinearInTrim(trim_meter, b, n) ==
    \A i \in 1..InterpCount(HsTrimData) :
        ret.value[i][2] = OnLineThrough(b, StatusAt(b, args.weight)[i][2], n, StatusAt(n, args.weight)[i][2], trim_meter)
StatusLinearInWeight(trim_meter, i, b, n) ==
    ret.value[i][2] = OnLineThrough(b, StatusAt(trim_meter, b)[i][2], n, StatusAt(trim_meter, n)[i][2], args.weight)

\* C15 as stated: a query outside the grid on an axis gives the value of
\* the lookup with each out-of-range coordinate replaced by the nearest
\* bound of its axis, in get_gz_curve and in optimize_trim.
C15_Original ==
    /\ GzReturned =>
        ret.value = GzAt(Clamped(KnTrimAxis, args.trim), Clamped(KnWeightAxis, args.weight))
    /\ TrimReturned =>
        \A i \in 1..InterpCount(HsTrimData) :
            ret.value[i][2] = GridInterpolate(HsTrimAxis, HsWeightAxis(i),
                                              GridValues(args.ship["Hydrostatics"], HsTrimData, Params[i]),
                                              Clamped(HsTrimAxis, TrimMeterOf(ret.value)),
                                              Clamped(HsWeightAxis(i), args.weight))

\* C15 (amended): a query outside the grid on an axis is not clamped but
\* extrapolated linearly on that axis, independently of the other axis: the
\* value lies on the line through the values at the nearest bound of the
\* axis and at the grid point next to that bound, the other coordinate
\* unchanged, in get_gz_curve and in optimize_trim.
C15_LinearBeyondGrid ==
    /\ GzReturned /\ Outside(KnTrimAxis, args.trim) =>
        GzLinearInTrim(Bound(KnTrimAxis, args.trim), Inner(KnTrimAxis, args.trim))
    /\ GzReturned /\ Outside(KnWeightAxis, args.weight) =>
        GzLinearInWeight(Bound(KnWeightAxis, args.weight), Inner(KnWeightAxis, args.weight))
    /\ TrimReturned /\ Outside(HsTrimAxis, TrimMeterOf(ret.value)) =>
        StatusLinearInTrim(TrimMeterOf(ret.value), Bound(HsTrimAxis, TrimMeterOf(ret.value)),
                           Inner(HsTrimAxis, TrimMeterOf(ret.value)))
    /\ TrimReturned =>
        \A i \in 1..InterpCount(HsTrimData) :
            Outside(HsWeightAxis(i), args.weight) =>
                StatusLinearInWeight(TrimMeterOf(ret.value), i, Bound(HsWeightAxis(i), args.weight),
                                     Inner(HsWeightAxis(i), args.weight))

\* a GZ curve returned for a trim below the grid and a weight above it,
\* different from the curve at the clamped query
C15_Witness ==
    /\ GzReturned
    /\ RLt(args.trim, KnTrimAxis[1])
    /\ RGt(args.weight, KnWeightAxis[Len(KnWeightAxis)])
    /\ ret.value # GzAt(Clamped(KnTrimAxis, args.trim), Clamped(KnWeightAxis, args.weight))

\* the KN value behind entry h of a returned GZ curve
KnOf(h) ==
    RAdd(RAdd(ret.value[h][2], RMul(args.vcg, SinDegrees(Float(ret.value[h][1])))),
         RMul(args.tcg, CosDegrees(Float(ret.value[h][1]))))
\* the rows of a frame whose weight, in the named column, is the weight of the call
RowsAtWeight(frame, column) == {k \in 1..Len(Lookup(frame, column)) : Lookup(frame, column)[k] = args.weight}
\* the trim tables of a dict whose trim is t
TablesAtTrim(dict, t) == {n \in 1..Len(dict) : FileTrim(dict[n][1]) = t}
\* the trim tables of the dict have one identical weight column
SharedWeights(dict, column) ==
    \A n \in 1..Len(dict) : Lookup(dict[n][2], column) = Lookup(dict[1][2], column)

KnTabulated(kn) ==
    \A n \in TablesAtTrim(kn, args.trim) :
        \A k \in RowsAtWeight(kn[n][2], "DISPLACEMENT") :
            \A h \in 1..Len(ret.value) : KnOf(h) = Lookup(kn[n][2], ret.value[h][1])[k]
HydroTabulated(hs, trim_meter) ==
    \A n \in TablesAtTrim(hs, trim_meter) :
        \A k \in RowsAtWeight(hs[n][2], "weight") :
            \A i \in 1..InterpCount(HsTrimData) : ret.value[i][2] = Lookup(hs[n][2], Params[i])[k]

\* C16: a lookup at an exact grid point returns the tabulated value: at
\* (trim of table t, weight of row k of t) get_gz_curve uses the KN stored
\* in row k of t at every heel angle and optimize_trim returns the
\* hydrostatic parameters stored in row k of t, also when the trim tables
\* do not share one identical weight column.
C16_GridPointIsTabulated ==
    /\ GzReturned => KnTabulated(args.ship["Cross Curves"])
    /\ TrimReturned => HydroTabulated(args.ship["Hydrostatics"], TrimMeterOf(ret.value))

\* the heel-angle columns of the cross-curve table, in column order
IsHeelColumn(name) == name # "DISPLACEMENT"
HeelColumns == SelectSeq(ColumnNames(Lookup(args.ship["Cross Curves"], "0.csv")), IsHeelColumn)
\* the keys of the returned curve, in order
GzAngles == [h \in 1..Len(ret.value) |-> ret.value[h][1]]
Increasing(labels) == \A h \in 1..(Len(labels) - 1) : RLt(Float(labels[h]), Float(labels[h + 1]))

\* C17: get_gz_curve returns exactly one GZ value for each heel-angle
\* column of the cross-curve table, in the table's column order: no angle
\* is missing, none is added, and ascending heel columns give a curve in
\* increasing angle order.
C17_OneValuePerHeelColumn ==
    GzReturned =>
        /\ GzAngles = HeelColumns
        /\ Increasing(HeelColumns) => Increasing(GzAngles)

\* a curve returned for a table with the heel columns 0, 90, 180
C17_Witness ==
    /\ GzReturned
    /\ HeelColumns = <<"0", "90", "180">>
    /\ GzAngles = <<"0", "90", "180">>

\* LCB0 and MCT0: the first evaluation, at trim 0 for the weight of the call
FirstEvaluation == StatusAt(R(0), args.weight)
\* weight (LCB0 - LCG) / (MCT0 100)
TrimMeters ==
    RDiv(RMul(args.weight, RSub(Lookup(FirstEvaluation, "lcb"), args.lcg)),
         RMul(Lookup(FirstEvaluation, "mct"), R(100)))
SecondEvaluation == StatusAt(TrimMeters, args.weight)
\* the entries of the returned floating status under the hydrostatic parameters
Hydrostatic(status) == {k \in 1..Len(status) : \E i \in 1..Len(Params) : status[k][1] = Params[i]}

\* C18: optimize_trim evaluates the tables exactly twice, at trim 0 and
\* then at trim_meters = weight (LCB0 - LCG) / (MCT0 100) with LCB0 and MCT0
\* of the first evaluation; every hydrostatic value of the returned
\* floating status is the value of the second evaluation, nothing is
\* corrected afterwards, and the drafts fore and aft are the second draft
\* minus and plus half of trim_meters.
C18_TwoEvaluations ==
    TrimReturned =>
        /\ \A k \in Hydrostatic(ret.value) : ret.value[k][2] = Lookup(SecondEvaluation, ret.value[k][1])
        /\ {ret.value[k][1] : k \in Hydrostatic(ret.value)} = Keys(SecondEvaluation)
        /\ Lookup(ret.value, "draft_aft") = RAdd(Lookup(SecondEvaluation, "draft"), RDiv(TrimMeters, R(2)))
        /\ Lookup(ret.value, "draft_fwd") = RSub(Lookup(SecondEvaluation, "draft"), RDiv(TrimMeters, R(2)))

\* a floating status whose second evaluation, at a trim other than 0,
\* differs from the first
C18_Witness ==
    /\ TrimReturned
    /\ ~RIsZero(TrimMeters)
    /\ Lookup(ret.value, "draft") # Lookup(FirstEvaluation, "draft")
    /\ Lookup(ret.value, "draft") = Lookup(SecondEvaluation, "draft")

TrimCall == op = "optimize_trim"
\* the first evaluation gave an LCB and an MCT
FirstPassDone == {"lcb", "mct"} \subseteq Keys(FirstEvaluation)
ZeroMct == FirstPassDone /\ RIsZero(Lookup(FirstEvaluation, "mct"))
\* the second evaluation was made and its KMT equals vcg_corr
ZeroHeelDenominator ==
    /\ FirstPassDone
    /\ ~RIsZero(Lookup(FirstEvaluation, "mct"))
    /\ RIsZero(RSub(Lookup(SecondEvaluation, "kmt"), args.vcg_corr))

\* C19: a zero denominator is not guarded in optimize_trim: when the MCT
\* of the first pass is 0, or when KMT - vcg_corr is 0 in the heel formula,
\* the call ends in ZeroDivisionError and returns no floating status.
C19_DivisionFault ==
    /\ TrimCall /\ ZeroMct => ret = Raise("ZeroDivisionError")
    /\ TrimCall /\ ZeroHeelDenominator => ret = Raise("ZeroDivisionError")

\* a call that reaches the heel formula with KMT = vcg_corr, a vessel
\* length other than 0 and a transverse offset
C19_Witness ==
    /\ TrimCall
    /\ ZeroHeelDenominator
    /\ ~RIsZero(args.length)
    /\ ~RIsZero(args.tcg)
    /\ ~RIsZero(TrimMeters)
    /\ ret = Raise("ZeroDivisionError")

(***************************************************************************)
(* Claims about get_ls_plot                                                *)
(***************************************************************************)
LsCall == op = "get_ls_plot"
LsReturned == LsCall /\ ret.kind = "return"
Stations == args.ship["lightship_distribution.csv"].x
Lightship == args.ship["lightship_distribution.csv"].y
ReferenceBuoyancy == args.ship["buoyancy_distribution.csv"]
\* no cargo and no tank load
NoDeadWeight ==
    /\ args.cargo_data = <<>>
    /\ \A k \in 1..Len(args.tank_data) : RIsZero(args.tank_data[k].weight)
\* the lightship distribution is c at every station and so is the
\* reference buoyancy curve
ConstantAtStations(c) ==
    \A k \in 1..Len(Stations) :
        /\ Lightship[k] = c
        /\ BdInterp(ReferenceBuoyancy.x, ReferenceBuoyancy.y, Stations[k]) = c
BalancedLightship == NoDeadWeight /\ ConstantAtStations(Lightship[1])
AllZero(values) == \A k \in 1..Len(values) : RIsZero(values[k])
\* the inputs on which a division of the routine has a zero denominator
LsLength == args.ship["ship_data.json"].vessel_data.loa
LsLimits == args.ship["ship_data.json"].longitudinal_strength
ZeroDraftSum ==
    RIsZero(RSum([k \in 1..Len(Stations) |-> DraftAt(Stations[k], LsLength, args.draft_aft, args.trim)]))
Degenerate ==
    \/ RIsZero(LsLength)
    \/ ZeroDraftSum
    \/ RIsZero(Lightship[1])
    \/ RIsZero(Stations[Len(Stations)])
    \/ RIsZero(LsLimits.sf_max)
    \/ RIsZero(LsLimits.bm_max)

BuoyancyCall == op = "get_buoyancy_distribution"
BuoyancyReturned == BuoyancyCall /\ ret.kind = "return"
\* the reference curve sampled at the stations of the call
SampledBuoyancy ==
    [k \in 1..Len(args.x_vals) |->
        BdInterp(args.ls_x_vals, args.ls_buoyancy_distribution, args.x_vals[k])]
\* the shares d / sum(draft_vals) add up to 1, so the uncorrected buoyancy
\* sums to the sampled curve plus the dead weight
UncorrectedSum == RAdd(RSum(SampledBuoyancy), args.total_dead_weight)
WeightTotal == RSum(args.weight_distribution)
\* the uncorrected buoyancy of station k times sum(draft_vals)
StationDraft(k) == DraftAt(args.x_vals[k], args.length, args.draft_aft, args.trim)
DraftTotal == RSum([k \in 1..Len(args.x_vals) |-> StationDraft(k)])
UncorrectedAt(k) ==
    RAdd(SampledBuoyancy[k], RDiv(RMul(args.total_dead_weight, StationDraft(k)), DraftTotal))

\* C21: when the uncorrected buoyancy sum is not 0, the distribution
\* get_buoyancy_distribution returns sums over all stations to the sum of
\* the weight distribution, and every station carries the one global factor
\* 1 + (sum W - sum B) / sum B = sum W / sum B.
C21_BuoyancyEqualsWeight ==
    BuoyancyReturned /\ ~RIsZero(UncorrectedSum) =>
        /\ Len(ret.value) = Len(args.x_vals)
        /\ RSum(ret.value) = WeightTotal
        /\ \A k \in 1..Len(ret.value) :
            RMul(ret.value[k], UncorrectedSum) = RMul(UncorrectedAt(k), WeightTotal)

\* a call with dead weight and trim whose uncorrected buoyancy differs
\* from the weight in total
C21_Witness ==
    /\ BuoyancyReturned
    /\ ~RIsZero(UncorrectedSum)
    /\ UncorrectedSum # WeightTotal
    /\ ~RIsZero(args.total_dead_weight)
    /\ ~RIsZero(args.trim)
    /\ ~RIsZero(WeightTotal)
    /\ RSum(ret.value) = WeightTotal


(***************************************************************************)
(* C22: two concurrent crane requests                                      *)
(***************************************************************************)
Answered(r) == requests[r].pc = "done" /\ requests[r].response.kind = "return"
Concurrent == \A r \in RequestIds : requests[r].pc # "idle"
SameWorksheet == Concurrent /\ requests[1].body.name = requests[2].body.name
\* the answer to the request's own selected cargo, user_input and boomdata
OwnResponse(body) == CraneAnswer(Vessel, FilteredCargo(body), body.user_input, body.boomdata)

\* C22: under any interleaving of two crane requests of one user for the
\* same vessel and worksheet, the crane_orientations and the
\* calculated_output_values of each response are those of the request's own
\* selected cargo, user_input and boomdata.
C22_OwnInputsOnly ==
    \A r \in RequestIds :
        SameWorksheet /\ Answered(r) => requests[r].response = OwnResponse(requests[r].body)


(***************************************************************************)
(* C23: the parameters of the floating status                              *)
(***************************************************************************)
StatusKeys == {"draft", "draft_fwd", "draft_aft", "trim", "heel", "gmt_solid", "gmt_liquid", "gml"}
ParamKeys == {Params[i] : i \in 1..Len(Params)}
TwoTablesOrMore == Len(HsTrimData) >= 2
\* the call met neither a zero denominator nor a grid scipy refuses
NoFault == ret \notin {Raise("ZeroDivisionError"), Raise("ValueError")}

\* C23: with two trim tables or more, whatever their number, optimize_trim
\* looks up each of the eight parameters draft, lcb, vcb, lcf, kml, kmt, mct
\* and tpc and returns a floating status that holds them and draft,
\* draft_fwd, draft_aft, trim, heel, gmt_solid, gmt_liquid and gml.
C23_EightParameters ==
    TrimCall /\ TwoTablesOrMore /\ NoFault =>
        /\ ret.kind = "return"
        /\ ParamKeys \cup StatusKeys \subseteq Keys(ret.value)


(***************************************************************************)
(* C24: the radius lookup undoes the SWL lookup                            *)
(***************************************************************************)
SwlDecreasing(rows) ==
    /\ \A k \in 1..Len(rows) : rows[k][2] > 0
    /\ \A k \in 1..(Len(rows) - 1) : rows[k][2] > rows[k + 1][2]
\* a call on a table sorted by radius with strictly decreasing positive SWL,
\* an outreach within its radii and DAF <= DAFincl
RoundTripCall ==
    /\ op = "calculate_required_swl"
    /\ HasRows(args.table) /\ IsAscending(args.table[1]) /\ SwlDecreasing(args.table[1])
    /\ MinRadius(args.table[1]) <= Outreach /\ Outreach <= MaxRadius(args.table[1])
    /\ args.f.DAF <= args.f.DAFincl
SwlAtOutreach == SwlLookup(args.table, args.Ra)
Interpolated == \A k \in 1..Len(args.table[1]) : args.table[1][k][1] # Outreach

\* C24: for a table sorted by ascending radius with strictly decreasing
\* positive SWL, DAF <= DAFincl and an outreach Ra within the radii of the
\* table, the radius found at the SWL that the table gives at Ra is Ra; a
\* call whose required SWL equals that SWL reports Rm = Ra.
C24_RadiusOfSwlIsOutreach ==
    RoundTripCall =>
        /\ SwlAtOutreach.kind = "return"
        /\ RadiusLookup(args.table, SwlAtOutreach.value) = Return(args.Ra)
        /\ ret.kind = "return" /\ ret.value.SWLreq = ret.value.SWL => ret.value.Rm = args.Ra

\* an outreach between two rows whose interpolated SWL is the required SWL
C24_Witness ==
    /\ RoundTripCall
    /\ Interpolated
    /\ ret.kind = "return"
    /\ ret.value.SWLreq = ret.value.SWL
    /\ ret.value.Rm = args.Ra


(***************************************************************************)
(* Claims about solve                                                      *)
(***************************************************************************)
SolveReturned == op = "solve" /\ ret.kind = "return"
SolveTanksOf == get_tank_weight(args.ship["Tanks"], args.tank_data).value
SolveTotal == TotalWeight(args.ship, SolveTanksOf, get_fixed_weight(ValidWeightData(args.weight_data, args.platform_data)).value)
SolveHs == args.ship["Hydrostatics"]
SolveTrimData == SortedByTrim(FileNames(SolveHs))
SolveFirstPass == FloatingStatus(SolveHs, SolveTrimData, R(0), SolveTotal.weight)
\* the trim at which the second pass of optimize_trim evaluated the tables
SolveTrimMeter == TrimMeter(SolveTotal.weight, Lookup(SolveFirstPass, "lcb"), SolveTotal.lcg, Lookup(SolveFirstPass, "mct"))
\* the GZ curve of the request's weight and centre of gravity at a trim
GzAtTrim(trim) == get_gz_curve(args.ship, SolveTotal.weight, SolveTotal.vcg, SolveTotal.tcg, trim).value

\* C25: in solve the GZ curve is the one get_gz_curve gives at trim_meter,
\* the trim coordinate at which the second pass of optimize_trim evaluated
\* the hydrostatic tables.
C25_GzAtSolverTrim ==
    SolveReturned =>
        /\ Lookup(ret.value.floating_status, "draft") = Lookup(FloatingStatus(SolveHs, SolveTrimData, SolveTrimMeter, SolveTotal.weight), "draft")
        /\ ret.value.gz_curve = GzAtTrim(SolveTrimMeter)

(***************************************************************************)
(* C26: the metacentric height of the wind criterion                       *)
(***************************************************************************)
\* C26: in solve the gmt_corr handed to get_criteria_data is the GM
\* corrected for free surface, KMT - vcg_corr, the gmt_liquid of the
\* floating status, also when the tanks have a free-surface moment.
C26_GmtCorrIsLiquid ==
    SolveReturned =>
        /\ Lookup(ret.value.floating_status, "gmt_liquid") = RSub(Lookup(ret.value.floating_status, "kmt"), VcgCorr(SolveTotal, SolveTanksOf.total[5]))
        /\ ret.value.criteria_call.gmt_corr = Lookup(ret.value.floating_status, "gmt_liquid")


(***************************************************************************)
(* C27: the load added by get_weight_dn                                    *)
(***************************************************************************)
WeightDnCall == op = "get_weight_dn"
\* the distribution before and after the n-th load
Before(n) == WeightDn(args.x_vals, args.lightship_distribution, args.distribution_list, n - 1)
After(n) == WeightDn(args.x_vals, args.lightship_distribution, args.distribution_list, n)
Inside(n) == IndicesInRange(args.x_vals, args.distribution_list[n])
Added(n) == RSub(RSum(After(n)), RSum(Before(n)))
\* each station rounds to 2 decimals: at most 0.005 each
Tolerance(n) == Rat(5 * Cardinality(Inside(n)), 1000)
LoadUnchangedOutside(n) == \A i \in 1..Len(args.x_vals) : i \notin Inside(n) => After(n)[i] = Before(n)[i]

\* C27: for every load (weight, x_min, x_max) with a station strictly inside
\* (x_min, x_max), what get_weight_dn adds to the stations sums to the
\* weight, up to the rounding of each station to 2 decimals, and the
\* stations outside (x_min, x_max) keep their value.
C27_LoadConserved ==
    WeightDnCall =>
        \A n \in 1..Len(args.distribution_list) :
            Inside(n) # {} =>
                /\ RLe(RAbs(RSub(Added(n), args.distribution_list[n][1])), Tolerance(n))
                /\ LoadUnchangedOutside(n)

(***************************************************************************)
(* The overload report of calculate_crane_and_swl                          *)
(***************************************************************************)
LiftReturned == op = "calculate_crane_and_swl" /\ ret.kind = "return"
\* the values of calculate_required_swl for the lift (crane.py line 46)
Calculated == ret.value.calculated_output_values
\* the boom_angle of the crane_1 orientation (crane.py lines 47, 52-58)
ReportedBoomAngle == Lookup(ret.value.crane_orientations, "crane_1")[1].boom_angle
CapacityExceeded == LiftReturned /\ RGt(Calculated.SHLub, Calculated.SWLcorr)

\* C28: whenever the hook load SHLub exceeds the corrected capacity
\* SWLcorr at the required outreach (SWLcorr = 0 and SWLcorr < 0 included),
\* the boom_angle reported by calculate_crane_and_swl is the text "beyond
\* crane capacity" or "beyond crane capacity and max radius", never an angle.
C28_OverloadIsReported ==
    CapacityExceeded =>
        /\ ReportedBoomAngle.variant = "text"
        /\ ReportedBoomAngle.text \in {BeyondCapacity, BeyondBoth}

(***************************************************************************)
(* The weather criterion of a fully unstable curve                         *)
(***************************************************************************)
\* all(val <= 0 for val in y), criteria.py line 410
NowherePositive(gz_curve) == \A i \in 1..Len(gz_curve) : RLe(gz_curve[i][2], R(0))
UnstableCall == CriteriaReturned /\ NowherePositive(args.gz_curve) /\ args.criteria_limits = <<>>

\* C29: for a GZ curve that is non-positive at every heel angle (range of
\* stability 0) and default limits, get_criteria_data does not report PASS
\* for criterion 9, "GZ area exceeds wind heeling arm by 40%".
C29_UnstableFailsCr9 ==
    UnstableCall => Criterion("cr_9").status # "PASS"

(***************************************************************************)
(* The area under a GZ curve as a function of its end angle                *)
(***************************************************************************)
NeverNegative(y_vals) == \A i \in 1..Len(y_vals) : RGe(y_vals[i], R(0))
AreaFromZero == op = "get_plot_area" /\ args.start_x = R(0) /\ NeverNegative(args.y_vals)
\* get_plot_area(x, y, 0, b) on the curve of the call
AreaTo(b) == get_plot_area(args.x_vals, args.y_vals, R(0), R(b))

\* C30: for a GZ curve with every value >= 0 on an ascending angle grid,
\* get_plot_area(x, y, 0, b) is non-decreasing in the end angle b >= 0, also
\* for end angles between two samples and beyond the last sampled angle.
C30_AreaNonDecreasing ==
    AreaFromZero => \A b \in EndAngles : RGe(R(b), args.end_x) => RGe(AreaTo(b), ret.value)

====
